---- MODULE Spec2Model ----
(***************************************************************************)
(* A model of the school LMS backend's handlers: POST /attendance/mark and *)
(* POST /biometric/sync-attendance as interleaved requests over the        *)
(* Attendance collection and its unique index, the attendance aggregation  *)
(* endpoints, POST /grades, PUT /grades/:id and the grade summary over the *)
(* Grade collection, course enrollment, the transport handlers, the        *)
(* inventory stock update, the read paths of attendance and grades, the    *)
(* deletion of an assignment beside a POST /grades, the Socket.IO          *)
(* connection registry and the fee payment.                                *)
(***************************************************************************)
EXTENDS Integers, Sequences, FiniteSets, TLC

VARIABLES
  attendance,   \* the Attendance collection: a set of documents
  reqs,         \* the attendance requests in flight, one slot per client
  emitted,      \* the attendance events published on the socket so far
  aggReq,       \* the GET /attendance/... request being served
  classResp,    \* GET /attendance/class/:classId: the response
  studentResp,  \* GET /attendance/student/:studentId: the response
  grades,       \* the Grade collection: a sequence of documents, _id = index
  gradeReq,     \* the POST /grades request being served
  gradeResp,    \* POST /grades and PUT /grades/:id: the status of the last response
  gradeEvent,   \* the last grade_updated event published on the socket
  summaryReq,   \* the GET /grades/student/:studentId/summary request being served
  summaryResp,  \* GET /grades/student/:studentId/summary: the response
  courses,      \* the Course collection: enrolledStudents, maxEnrollment, __v
  enrollReqs,   \* the POST /courses/:id/enroll requests in flight, one slot per client
  transport,    \* the Transport record: capacity, status, assignedStudents, __v
  assignReqs,   \* the POST /transport/:id/assign-students requests in flight
  transportResp, \* the last response of the other /transport handlers
  stockItem,    \* the Inventory item: quantity, minStockLevel, unitPrice, totalValue, status
  stockReqs,    \* the POST /inventory/:id/stock-update requests in flight
  stockEvent,   \* the last low_stock_alert event published on the socket
  readReq,      \* the GET /attendance, GET /grades or GET /grades/:id request being served
  readResp,     \* its response
  deleted,      \* the ids of the Assignment documents that were removed
  delReq,       \* the DELETE /assignments/:id request being served
  postPhase,    \* where a POST /grades that runs beside it stands
  sockets,      \* the Socket.IO sockets: whether connected, and socket.userId
  connectedUsers, \* the Map from user id to socket id, its entries in insertion order
  notified,     \* the last notification sent on and the sockets it was delivered to
  fee,          \* the Fee document: status, paymentMethod, paymentDate
  payReqs,      \* the POST /fees/:id/pay requests in flight
  feePaid,      \* the number of fee_paid events published
  now           \* the clock new Date() reads

vars ==
  << attendance, reqs, emitted, aggReq, classResp, studentResp,
     grades, gradeReq, gradeResp, gradeEvent, summaryReq, summaryResp,
     courses, enrollReqs, transport, assignReqs, transportResp,
     stockItem, stockReqs, stockEvent, readReq, readResp,
     deleted, delReq, postPhase, sockets, connectedUsers, notified,
     fee, payReqs, feePaid, now >>

attVars == << attendance, reqs, emitted >>
aggVars == << aggReq, classResp, studentResp >>
gradeVars == << grades, gradeReq, gradeResp, gradeEvent >>
sumVars == << summaryReq, summaryResp >>
enrollVars == << courses, enrollReqs >>
transportVars == << transport, assignReqs, transportResp >>
stockVars == << stockItem, stockReqs, stockEvent >>
readVars == << readReq, readResp >>
deleteVars == << deleted, delReq, postPhase >>
socketVars == << sockets, connectedUsers, notified >>
feeVars == << fee, payReqs, feePaid, now >>
otherVars == << deleteVars, socketVars, feeVars >>
restVars == << sumVars, enrollVars, transportVars, stockVars, readVars, otherVars >>
notAttVars == << aggVars, gradeVars, restVars >>

\* undefined, null or a field that is absent
NoVal == "none"

(***************************************************************************)
(* JavaScript numbers.  A positive double is 1.d1d2d3d4 * 2^e, the         *)
(* fraction held as four limbs of 13 bits (52 bits); zero has no limbs.    *)
(* Division and multiplication round to nearest, ties to even, as IEEE 754 *)
(* binary64 does.                                                          *)
(***************************************************************************)
LimbBits == 13
LimbBase == 2 ^ LimbBits

JsZero == [e |-> 0, d |-> <<>>]

JsRoundUp(e, d) ==
  IF d[4] + 1 < LimbBase THEN [e |-> e, d |-> <<d[1], d[2], d[3], d[4] + 1>>]
  ELSE IF d[3] + 1 < LimbBase THEN [e |-> e, d |-> <<d[1], d[2], d[3] + 1, 0>>]
  ELSE IF d[2] + 1 < LimbBase THEN [e |-> e, d |-> <<d[1], d[2] + 1, 0, 0>>]
  ELSE IF d[1] + 1 < LimbBase THEN [e |-> e, d |-> <<d[1] + 1, 0, 0, 0>>]
  ELSE [e |-> e + 1, d |-> <<0, 0, 0, 0>>]

JsNearest(e, d, above, tie) ==
  IF above \/ (tie /\ d[4] % 2 = 1) THEN JsRoundUp(e, d) ELSE [e |-> e, d |-> d]

\* p / t as a double, for integers p >= 0 and t > 0
JsDiv(p, t) ==
  IF p = 0 THEN JsZero
  ELSE LET up == IF p >= t THEN CHOOSE k \in 0..30 : t * 2 ^ (k + 1) > p ELSE 0
           dn == IF p >= t THEN 0 ELSE CHOOSE k \in 1..30 : p * 2 ^ k >= t
           pp == p * 2 ^ dn
           tt == t * 2 ^ up
           r0 == pp - tt
           d1 == (r0 * LimbBase) \div tt
           r1 == (r0 * LimbBase) % tt
           d2 == (r1 * LimbBase) \div tt
           r2 == (r1 * LimbBase) % tt
           d3 == (r2 * LimbBase) \div tt
           r3 == (r2 * LimbBase) % tt
           d4 == (r3 * LimbBase) \div tt
           r4 == (r3 * LimbBase) % tt
       IN  JsNearest(up - dn, <<d1, d2, d3, d4>>, 2 * r4 > tt, 2 * r4 = tt)

\* x * k as a double, for a double x and an integer k > 0
JsMul(x, k) ==
  IF x.d = <<>> THEN JsZero
  ELSE LET v4 == x.d[4] * k
           v3 == (x.d[3] * k) + (v4 \div LimbBase)
           v2 == (x.d[2] * k) + (v3 \div LimbBase)
           v1 == (x.d[1] * k) + (v2 \div LimbBase)
           top == k + (v1 \div LimbBase)
           s == CHOOSE n \in 0..17 : top < 2 ^ (n + 1)
           lo == 2 ^ s
           hi == LimbBase \div lo
           m4 == v4 % LimbBase
           m3 == v3 % LimbBase
           m2 == v2 % LimbBase
           m1 == v1 % LimbBase
           cut == m4 % lo
       IN  JsNearest(x.e + s,
                     << ((top - lo) * hi) + (m1 \div lo),
                        ((m1 % lo) * hi) + (m2 \div lo),
                        ((m2 % lo) * hi) + (m3 \div lo),
                        ((m3 % lo) * hi) + (m4 \div lo) >>,
                     2 * cut > lo, 2 * cut = lo /\ s > 0)

JsTop(x) == (x.d[1] * LimbBase) + x.d[2]

\* Math.floor of a double below 2^26
JsFloor(x) ==
  IF x.d = <<>> \/ x.e < 0 THEN 0
  ELSE 2 ^ x.e + (JsTop(x) \div 2 ^ (2 * LimbBits - x.e))

JsIsInteger(x) ==
  \/ x.d = <<>>
  \/ /\ x.e >= 0
     /\ JsTop(x) % 2 ^ (2 * LimbBits - x.e) = 0
     /\ x.d[3] = 0
     /\ x.d[4] = 0

\* x >= k and x <= k for a double x >= 0 and an integer k >= 0
JsGeq(x, k) == JsFloor(x) >= k
JsLeq(x, k) == JsFloor(x) < k \/ (JsFloor(x) = k /\ JsIsInteger(x))

\* Math.round: the nearest integer, a tie going up
MathRound(x) ==
  IF x.d = <<>> \/ x.e < -1 THEN 0
  ELSE IF x.e = -1 THEN 1
  ELSE JsFloor(x) + ((JsTop(x) \div 2 ^ (2 * LimbBits - 1 - x.e)) % 2)

\* a limb of a sequence, 0 beyond its end
LimbAt(L, i) == IF i >= 1 /\ i <= Len(L) THEN L[i] ELSE 0

\* the double nearest to the number whose binary digits are the limbs of L, the
\* first limb counting units of 2^e0, followed by more nonzero digits if sticky
JsNormalize(L, e0, sticky) ==
  IF \A i \in 1..Len(L) : L[i] = 0 THEN JsZero
  ELSE LET f == CHOOSE i \in 1..Len(L) : L[i] # 0 /\ \A j \in 1..(i - 1) : L[j] = 0
           b == CHOOSE n \in 0..(LimbBits - 1) : L[f] \div 2 ^ n = 1
           lo == 2 ^ b
           hi == LimbBase \div lo
           limb(j) == ((LimbAt(L, f + j - 1) % lo) * hi) + (LimbAt(L, f + j) \div lo)
           head == IF b > 0 THEN LimbAt(L, f + 4) % lo ELSE LimbAt(L, f + 5)
           half == IF b > 0 THEN lo \div 2 ELSE LimbBase \div 2
           more == \/ sticky
                   \/ \E j \in (f + (IF b > 0 THEN 5 ELSE 6))..Len(L) : L[j] # 0
       IN  JsNearest(e0 - (LimbBits * (f - 1)) + b,
                     <<limb(1), limb(2), limb(3), limb(4)>>,
                     head > half \/ (head = half /\ more),
                     head = half /\ ~more)

RECURSIVE AddLimbs(_, _, _, _)
\* the sum of two rows of n limbs: the limbs from the i-th on, carries taken in
AddLimbs(X, Y, i, n) ==
  IF i > n THEN <<0>>
  ELSE LET rest == AddLimbs(X, Y, i + 1, n)
           sum == LimbAt(X, i) + LimbAt(Y, i) + rest[1]
       IN  IF i = 1 THEN <<sum>> \o Tail(rest)
           ELSE <<sum \div LimbBase, sum % LimbBase>> \o Tail(rest)

\* x + y for doubles x, y >= 0
JsAdd(x, y) ==
  IF x.d = <<>> THEN y
  ELSE IF y.d = <<>> THEN x
  ELSE LET a == IF x.e >= y.e THEN x ELSE y
           c == IF x.e >= y.e THEN y ELSE x
           k == a.e - c.e
           q == k \div LimbBits
           lo == 2 ^ (k % LimbBits)
           hi == LimbBase \div lo
           C == <<1>> \o c.d \o <<0>>
           shifted == [j \in 1..(q + 6) |->
                         IF j <= q THEN 0
                         ELSE ((LimbAt(C, j - q - 1) % lo) * hi)
                              + (LimbAt(C, j - q) \div lo)]
       IN  IF k > 5 * LimbBits THEN a
           ELSE JsNormalize(AddLimbs(<<1>> \o a.d, shifted, 1, q + 6), a.e, FALSE)

RECURSIVE DivLimbs(_, _, _, _)
\* long division of the limbs of X from the i-th on by n, rem carried in: the
\* limbs of the quotient, and after them the last remainder
DivLimbs(X, n, i, rem) ==
  IF i > Len(X) THEN <<rem>>
  ELSE LET cur == (rem * LimbBase) + X[i]
       IN  <<cur \div n>> \o DivLimbs(X, n, i + 1, cur % n)

\* x / n for a double x >= 0 and an integer 0 < n < LimbBase
JsDivBy(x, n) ==
  IF x.d = <<>> THEN JsZero
  ELSE LET Q == DivLimbs(<<1>> \o x.d \o <<0, 0>>, n, 1, 0)
       IN  JsNormalize(SubSeq(Q, 1, 7), x.e, Q[8] # 0)

\* v * 2^s rounded down
ShiftBy(v, s) ==
  IF s >= 0 THEN v * 2 ^ s ELSE IF s < -30 THEN 0 ELSE v \div 2 ^ (-s)

\* x.toFixed(2) for a double 0 <= x < 2^12, in hundredths: the integer nearest
\* to x * 100 taken exactly, the larger one of two that are as near
ToFixed2(x) ==
  IF x.d = <<>> THEN 0
  ELSE LET v4 == x.d[4] * 100
           v3 == (x.d[3] * 100) + (v4 \div LimbBase)
           v2 == (x.d[2] * 100) + (v3 \div LimbBase)
           v1 == (x.d[1] * 100) + (v2 \div LimbBase)
           top == 100 + (v1 \div LimbBase)
           twice == ShiftBy(top, x.e + 1)
                    + ShiftBy(v1 % LimbBase, x.e + 1 - LimbBits)
                    + ShiftBy(v2 % LimbBase, x.e + 1 - (2 * LimbBits))
                    + ShiftBy(v3 % LimbBase, x.e + 1 - (3 * LimbBits))
                    + ShiftBy(v4 % LimbBase, x.e + 1 - (4 * LimbBits))
       IN  (twice + 1) \div 2

\* parseFloat of a decimal with two places, given in hundredths
ParseHundredths(h) == JsDiv(h, 100)

(***************************************************************************)
(* Dates.  A Date is a count of ticks; a calendar day holds TicksPerDay of *)
(* them.                                                                   *)
(***************************************************************************)
TicksPerDay == 2
MaxTick == 3

\* the dates of a run: the last tick of one day and the first ticks of the next
Stamps == 1..MaxTick

\* new Date(date).setHours(0, 0, 0, 0) and new Date(date).setHours(24, 0, 0, 0)
DayStart(date) == date - (date % TicksPerDay)
DayEnd(date) == DayStart(date) + TicksPerDay

(***************************************************************************)
(* The documents the attendance handlers read.                             *)
(***************************************************************************)
\* Course documents: c1 exists, with s1 enrolled; c9 is the id of no course
courseDocs == [c1 |-> [enrolledStudents |-> {"s1"}, instructor |-> "t1"]]

\* the check with the membership test left out
EnrolledCourseExists(course, student) == course \in DOMAIN courseDocs

\* courseDoc && courseDoc.enrolledStudents.includes(student)
Enrolled(course, student) ==
  course \in DOMAIN courseDocs /\ student \in courseDocs[course].enrolledStudents

\* Student documents by biometricId
StudentByBiometric(biometricId) ==
  IF biometricId = "b1" THEN "s1" ELSE NoVal

StatusEnum == {"present", "absent", "late", "excused"}
MethodEnum == {"manual", "biometric", "gps"}

\* the biometricData of a document created without one
NoBiometric == [deviceId |-> NoVal, timestamp |-> 0, fingerprintId |-> NoVal]

\* a null element of the request's array
NullItem == [null |-> TRUE]

\* the array elements a client may send: an enrolled student on any date with
\* either status, a student who is not enrolled, a course that does not exist,
\* an element without a date (0) and a null element
MarkItems ==
  {NullItem} \cup
  [student : {"s1"}, course : {"c1"}, date : Stamps,
   status : {"present", "absent"}, method : {"manual"}] \cup
  {[student |-> "s2", course |-> "c1", date |-> 1, status |-> "present",
    method |-> "manual"],
   [student |-> "s1", course |-> "c9", date |-> 1, status |-> "present",
    method |-> "manual"],
   [student |-> "s1", course |-> "c1", date |-> 0, status |-> "present",
    method |-> "manual"]}

\* a known fingerprint with a course on any date, the same without a course,
\* an unknown fingerprint and a null element
SyncItems ==
  {NullItem} \cup
  [biometricId : {"b1"}, timestamp : Stamps, deviceId : {"d1"}, courseId : {"c1"}] \cup
  {[biometricId |-> "b1", timestamp |-> 1, deviceId |-> "d1",
    courseId |-> NoVal],
   [biometricId |-> "b9", timestamp |-> 1, deviceId |-> "d1",
    courseId |-> "c1"]}

MaxBatch == 2

\* the requests of a run; each is sent once and runs concurrently with the other
Requests == {"r1", "r2"}

Idle ==
  [kind |-> NoVal, user |-> NoVal, n |-> 0, idx |-> 0, phase |-> "idle",
   cur |-> NullItem, last |-> NoVal, entry |-> NoVal, processed |-> 0, failed |-> 0,
   code |-> 0]

(***************************************************************************)
(* POST /api/attendance/mark.  The loop body suspends at each await; the   *)
(* reads of one item (Course.findById, Attendance.findOne) are one step    *)
(* and Attendance.create is the next, so that other requests run between   *)
(* the existence check and the insert.                                     *)
(***************************************************************************)
\* the unique index { student: 1, date: 1, course: 1 }
DuplicateKey(att, doc) ==
  \E rec \in att :
    rec.student = doc.student /\ rec.date = doc.date /\ rec.course = doc.course

\* the lookup by the exact date instead of the day's range
MarkFindOneExactDate(att, item) ==
  {rec \in att : /\ rec.student = item.student
                 /\ rec.course = item.course
                 /\ rec.date = item.date}

\* Attendance.findOne({ student, course, date: { $gte: day start, $lt: day end } })
MarkFindOne(att, item) ==
  {rec \in att : /\ rec.student = item.student
                 /\ rec.course = item.course
                 /\ rec.date >= DayStart(item.date)
                 /\ rec.date < DayEnd(item.date)}

\* the end of one iteration of the loop over `record`; after the last one the
\* response is sent.  Of the arrays results and errors (processedRecords and
\* failedRecords) the state holds the lengths, processed and failed, and of the
\* latest iteration its record (cur), the array its entry went to (last) and
\* the entry's status or error (entry)
PushResult(q, item, status) ==
  [q EXCEPT !.idx = q.idx + 1, !.cur = item, !.last = "results", !.entry = status,
            !.processed = q.processed + 1,
            !.phase = IF q.idx + 1 = q.n THEN "done" ELSE "check",
            !.code = IF q.idx + 1 = q.n THEN 200 ELSE 0]

PushError(q, item, error) ==
  [q EXCEPT !.idx = q.idx + 1, !.cur = item, !.last = "errors", !.entry = error,
            !.failed = q.failed + 1,
            !.phase = IF q.idx + 1 = q.n THEN "done" ELSE "check",
            !.code = IF q.idx + 1 = q.n THEN 200 ELSE 0]

MarkBegin(r) ==
  /\ reqs[r].phase = "idle"
  /\ \E n \in 0..MaxBatch :
       reqs' = [reqs EXCEPT ![r] =
         IF n = 0
         THEN [Idle EXCEPT !.kind = "mark", !.user = "u7", !.phase = "done", !.code = 400]
         ELSE [Idle EXCEPT !.kind = "mark", !.user = "u7", !.n = n, !.phase = "check"]]
  /\ UNCHANGED <<attendance, emitted, notAttVars>>

MarkCheck(r) ==
  LET q == reqs[r] IN
  /\ q.kind = "mark"
  /\ q.phase = "check"
  /\ \E item \in MarkItems :
       IF item = NullItem
       THEN \* destructuring null throws inside the try block
            reqs' = [reqs EXCEPT ![r] = PushError(q, item, "TypeError")]
       ELSE IF NoVal \in {item.student, item.course, item.status} \/ item.date = 0
       THEN reqs' = [reqs EXCEPT ![r] = PushError(q, item, "Missing required fields")]
       ELSE IF ~Enrolled(item.course, item.student)
       THEN reqs' = [reqs EXCEPT ![r] = PushError(q, item, "Student is not enrolled in this course")]
       ELSE IF MarkFindOne(attendance, item) # {}
       THEN reqs' = [reqs EXCEPT ![r] = PushResult(q, item, "already_marked")]
       ELSE reqs' = [reqs EXCEPT ![r] = [q EXCEPT !.phase = "create", !.cur = item]]
  /\ UNCHANGED <<attendance, emitted, notAttVars>>

MarkCreate(r) ==
  LET q == reqs[r]
      item == q.cur
      doc == [student |-> item.student, course |-> item.course, date |-> item.date,
              status |-> item.status, method |-> item.method, markedBy |-> q.user,
              biometricData |-> NoBiometric]
  IN
  /\ q.kind = "mark"
  /\ q.phase = "create"
  /\ IF doc.status \notin StatusEnum \/ doc.method \notin MethodEnum
     THEN /\ reqs' = [reqs EXCEPT ![r] = PushError(q, item, "ValidationError")]
          /\ UNCHANGED <<attendance, emitted, notAttVars>>
     ELSE IF DuplicateKey(attendance, doc)
     THEN /\ reqs' = [reqs EXCEPT ![r] = PushError(q, item, "E11000 duplicate key")]
          /\ UNCHANGED <<attendance, emitted, notAttVars>>
     ELSE /\ attendance' = attendance \cup {doc}
          /\ reqs' = [reqs EXCEPT ![r] = PushResult(q, item, "marked")]
          /\ emitted' = emitted \cup
               {[type |-> "attendance_updated", studentId |-> item.student,
                 courseId |-> item.course, date |-> item.date, status |-> item.status]}
          /\ UNCHANGED notAttVars

(***************************************************************************)
(* POST /api/biometric/sync-attendance.                                    *)
(***************************************************************************)
\* Attendance.findOne({ student, date: { $gte, $lt }, biometricData: { deviceId } }):
\* an embedded document matches a query document only when the two are equal
SyncFindOne(att, student, item) ==
  {rec \in att : /\ rec.student = student
                 /\ rec.date >= DayStart(item.timestamp)
                 /\ rec.date < DayEnd(item.timestamp)
                 /\ rec.biometricData = [deviceId |-> item.deviceId]}

SyncBegin(r) ==
  /\ reqs[r].phase = "idle"
  /\ \E tokenOk \in BOOLEAN, n \in 0..MaxBatch :
       reqs' = [reqs EXCEPT ![r] =
         IF ~tokenOk
         THEN [Idle EXCEPT !.kind = "sync", !.phase = "done", !.code = 401]
         ELSE IF n = 0
         THEN [Idle EXCEPT !.kind = "sync", !.phase = "done", !.code = 400]
         ELSE [Idle EXCEPT !.kind = "sync", !.n = n, !.phase = "check"]]
  /\ UNCHANGED <<attendance, emitted, notAttVars>>

SyncCheck(r) ==
  LET q == reqs[r] IN
  /\ q.kind = "sync"
  /\ q.phase = "check"
  /\ \E item \in SyncItems :
       IF item = NullItem
       THEN \* record.biometricId throws in the try block and again in the catch
            \* block: the rejection leaves the loop and the request ends in a 500
            reqs' = [reqs EXCEPT ![r] = [q EXCEPT !.phase = "crashed", !.code = 500]]
       ELSE IF StudentByBiometric(item.biometricId) = NoVal
       THEN reqs' = [reqs EXCEPT ![r] = PushError(q, item, "Student not found")]
       ELSE IF SyncFindOne(attendance, StudentByBiometric(item.biometricId), item) # {}
       THEN reqs' = [reqs EXCEPT ![r] = PushResult(q, item, "already_recorded")]
       ELSE reqs' = [reqs EXCEPT ![r] = [q EXCEPT !.phase = "create", !.cur = item]]
  /\ UNCHANGED <<attendance, emitted, notAttVars>>

SyncCreate(r) ==
  LET q == reqs[r]
      item == q.cur
      student == StudentByBiometric(item.biometricId)
      doc == [student |-> student, course |-> item.courseId, date |-> item.timestamp,
              status |-> "present", method |-> "biometric", markedBy |-> NoVal,
              biometricData |-> [deviceId |-> item.deviceId,
                                 timestamp |-> item.timestamp,
                                 fingerprintId |-> item.biometricId]]
  IN
  /\ q.kind = "sync"
  /\ q.phase = "create"
  /\ IF doc.course = NoVal
     THEN \* course is required: save() rejects the document
          /\ reqs' = [reqs EXCEPT ![r] = PushError(q, item, "ValidationError")]
          /\ UNCHANGED <<attendance, emitted, notAttVars>>
     ELSE IF DuplicateKey(attendance, doc)
     THEN /\ reqs' = [reqs EXCEPT ![r] = PushError(q, item, "E11000 duplicate key")]
          /\ UNCHANGED <<attendance, emitted, notAttVars>>
     ELSE /\ attendance' = attendance \cup {doc}
          /\ reqs' = [reqs EXCEPT ![r] = PushResult(q, item, "saved")]
          /\ emitted' = emitted \cup
               {[type |-> "attendance_sync", studentId |-> student,
                 courseId |-> item.courseId, date |-> item.timestamp,
                 status |-> "present"]}
          /\ UNCHANGED notAttVars

(***************************************************************************)
(* GET /api/attendance/student/:studentId and /class/:classId.             *)
(***************************************************************************)
NoResponse == [status |-> 0]

\* Student documents; s9 is the id of no student
studentDocs ==
  [s1 |-> [user |-> "u1", parent |-> "p1", class |-> "k1", section |-> "A"],
   s2 |-> [user |-> "u2", parent |-> NoVal, class |-> "k1", section |-> "A"],
   s3 |-> [user |-> "u3", parent |-> "p3", class |-> "k1", section |-> "B"]]

\* req.user of the callers: the admin, two students, two parents, a teacher
\* and an accountant
Callers ==
  {[role |-> "admin", id |-> "u0"], [role |-> "student", id |-> "u1"],
   [role |-> "student", id |-> "u2"], [role |-> "parent", id |-> "p1"],
   [role |-> "parent", id |-> "p3"], [role |-> "teacher", id |-> "u7"],
   [role |-> "accountant", id |-> "u5"]}

NoQuery ==
  [kind |-> NoVal, user |-> [role |-> NoVal, id |-> NoVal], classId |-> NoVal,
   studentId |-> NoVal, section |-> NoVal, course |-> NoVal, startDate |-> 0,
   endDate |-> 0]

\* the day a date filter names: the second day of the records
FilterDate == 2 * TicksPerDay

\* every caller asking for each student without a filter, and the admin asking
\* for s1 with each combination of the course and date filters (0: no date)
StudentQueries ==
  {[NoQuery EXCEPT !.kind = "student", !.user = u, !.studentId = s] :
     u \in Callers, s \in {"s1", "s2", "s9"}} \cup
  {[NoQuery EXCEPT !.kind = "student", !.user = [role |-> "admin", id |-> "u0"],
                   !.studentId = "s1", !.course = c, !.startDate = a, !.endDate = b] :
     c \in {NoVal, "c1"}, a \in {0, FilterDate}, b \in {0, FilterDate}}

\* class k1 and a class without students, with each section and date filter
ClassQueries ==
  {[NoQuery EXCEPT !.kind = "class", !.user = [role |-> "admin", id |-> "u0"],
                   !.classId = k, !.section = x, !.startDate = a, !.endDate = b] :
     k \in {"k1", "k9"}, x \in {NoVal, "A", "B"}, a \in {0, FilterDate},
     b \in {0, FilterDate}}

\* query.date = { $gte: new Date(startDate), $lte: new Date(endDate) }
InDateRange(rec, q) ==
  /\ q.startDate = 0 \/ rec.date >= q.startDate
  /\ q.endDate = 0 \/ rec.date <= q.endDate

\* (presentCount / totalCount) * 100 rounded by Math.round, 0 without records
AttendanceRate(presentCount, totalCount) ==
  IF totalCount > 0
  THEN MathRound(JsMul(JsDiv(presentCount, totalCount), 100))
  ELSE 0

GetStudentAttendance ==
  LET q == aggReq
      student == studentDocs[q.studentId]
      allRecords ==
        {rec \in attendance : /\ rec.student = q.studentId
                              /\ q.course = NoVal \/ rec.course = q.course
                              /\ InDateRange(rec, q)}
      presentCount == Cardinality({rec \in allRecords : rec.status = "present"})
      totalCount == Cardinality(allRecords)
  IN
  /\ q.kind = "student"
  /\ studentResp = NoResponse
  /\ studentResp' =
       IF q.studentId \notin DOMAIN studentDocs THEN [status |-> 404]
       ELSE IF q.user.role = "student" /\ student.user # q.user.id
       THEN [status |-> 403]
       ELSE IF q.user.role = "parent" /\ student.parent # NoVal
               /\ student.parent # q.user.id
       THEN [status |-> 403]
       ELSE [status |-> 200,
             statistics |->
               [total |-> totalCount,
                present |-> presentCount,
                absent |-> totalCount - presentCount,
                attendanceRate |-> AttendanceRate(presentCount, totalCount)],
             totalDocs |-> totalCount]
  /\ UNCHANGED <<attVars, aggReq, classResp, gradeVars, restVars>>

RECURSIVE SumRates(_, _)
\* allRates.reduce((sum, rate) => sum + rate, 0)
SumRates(by, S) ==
  IF S = {} THEN 0
  ELSE LET s == CHOOSE x \in S : TRUE
       IN  by[s].statistics.rate + SumRates(by, S \ {s})

\* the rates averaged without the filter on total > 0
AllStudents(by) == DOMAIN by

\* Object.values(attendanceByStudent).filter(s => s.statistics.total > 0)
RatedStudents(by) == {s \in DOMAIN by : by[s].statistics.total > 0}

GetClassAttendance ==
  LET q == aggReq
      studentIds ==
        {s \in DOMAIN studentDocs :
           /\ studentDocs[s].class = q.classId
           /\ q.section = NoVal \/ studentDocs[s].section = q.section}
      attendanceRecords ==
        {rec \in attendance : rec.student \in studentIds /\ InDateRange(rec, q)}
      attendanceByStudent ==
        [s \in studentIds |->
           LET records == {rec \in attendanceRecords : rec.student = s}
               total == Cardinality(records)
               present == Cardinality({rec \in records : rec.status = "present"})
               absent == Cardinality({rec \in records : rec.status # "present"})
           IN  [statistics |->
                  [total |-> total, present |-> present, absent |-> absent,
                   rate |-> AttendanceRate(present, total)]]]
      allRates == RatedStudents(attendanceByStudent)
      classAverage ==
        IF Cardinality(allRates) > 0
        THEN MathRound(JsDiv(SumRates(attendanceByStudent, allRates),
                             Cardinality(allRates)))
        ELSE 0
  IN
  /\ q.kind = "class"
  /\ classResp = NoResponse
  /\ classResp' =
       [status |-> 200,
        attendanceByStudent |-> attendanceByStudent,
        classSummary |->
          [totalStudents |-> Cardinality(studentIds),
           studentsWithAttendance |->
             Cardinality({s \in studentIds :
                            attendanceByStudent[s].statistics.total > 0}),
           classAverage |-> classAverage]]
  /\ UNCHANGED <<attVars, aggReq, studentResp, gradeVars, restVars>>

(***************************************************************************)
(* POST /api/grades and PUT /api/grades/:id.  A number of a request body   *)
(* is <<v>>, and <<>> when the body does not have the field.               *)
(***************************************************************************)
MaxPoints == 20
MaxGrades == 1

\* Teacher.findOne({ user: req.user.id })._id; u9 has no Teacher document
TeacherByUser(id) ==
  IF id = "u7" THEN "t1" ELSE IF id = "u8" THEN "t2" ELSE NoVal

\* Assignment documents; a9 is the id of no assignment
assignmentDocs ==
  [a1 |-> [course |-> "c1", instructor |-> "t1"],
   a2 |-> [course |-> "c2", instructor |-> "t2"]]

GradeTypeEnum == {"assignment", "quiz", "exam", "participation"}

NoEvent == [type |-> NoVal]

NoBody ==
  [user |-> [role |-> NoVal, id |-> NoVal], student |-> NoVal, course |-> NoVal,
   assignment |-> NoVal, gradeType |-> NoVal, pointsEarned |-> <<>>,
   maxPoints |-> <<>>, gradedBy |-> NoVal]

\* the instructor of c1 grading s1 in c1
PlainBody ==
  [NoBody EXCEPT !.user = [role |-> "teacher", id |-> "u7"], !.student = "s1",
                 !.course = "c1", !.gradeType = "exam"]

\* the callers checkRole('teacher', 'admin') lets through: the admin, the
\* instructor of c1, another teacher and a teacher without a Teacher document
Graders ==
  {[role |-> "admin", id |-> "u0"], [role |-> "teacher", id |-> "u7"],
   [role |-> "teacher", id |-> "u8"], [role |-> "teacher", id |-> "u9"]}

PointsChoices == {<<>>} \cup {<<v>> : v \in -1..(MaxPoints + 1)}

\* maxPoints of 0, of 1 and of MaxPoints, whose percentages are the multiples of 5
ScaleChoices == {<<>>, <<0>>, <<1>>, <<MaxPoints>>}
AllScaleChoices == {<<>>} \cup {<<v>> : v \in -1..MaxPoints}

\* bodies that differ in who sends them and which documents they name
OtherBodies(points, assignments) ==
  {[NoBody EXCEPT !.user = u, !.student = s, !.course = c, !.assignment = a,
                  !.gradeType = t, !.gradedBy = g, !.pointsEarned = <<pm[1]>>,
                  !.maxPoints = <<pm[2]>>] :
     u \in Graders, s \in {"s1", "s2", "s9"}, c \in {"c1", "c9"},
     a \in assignments, t \in {"exam", "homework", NoVal}, g \in {"t1", NoVal},
     pm \in points}

\* the bodies of a run of requests: the stored grades differ in their numbers
PostBodies ==
  {[PlainBody EXCEPT !.pointsEarned = pe, !.maxPoints = mp] :
     pe \in PointsChoices, mp \in ScaleChoices} \cup
  OtherBodies({<<1, 1>>}, {NoVal, "a9"})

\* the bodies of a single request: every pair of numbers up to MaxPoints
AllPostBodies ==
  {[PlainBody EXCEPT !.pointsEarned = pe, !.maxPoints = mp] :
     pe \in PointsChoices, mp \in AllScaleChoices} \cup
  OtherBodies({<<1, 1>>, <<2, 1>>, <<-1, 1>>}, {NoVal, "a1", "a2", "a9"})

\* (pointsEarned / maxPoints) * 100, for maxPoints > 0
Percentage(pointsEarned, maxPoints) == JsMul(JsDiv(pointsEarned, maxPoints), 100)

\* the table with its first row read as percentage > 90
LetterGradeStrict(percentage) ==
  IF ~JsLeq(percentage, 90) THEN "A+"
  ELSE IF JsGeq(percentage, 85) THEN "A"
  ELSE IF JsGeq(percentage, 80) THEN "A-"
  ELSE IF JsGeq(percentage, 75) THEN "B+"
  ELSE IF JsGeq(percentage, 70) THEN "B"
  ELSE IF JsGeq(percentage, 65) THEN "B-"
  ELSE IF JsGeq(percentage, 60) THEN "C+"
  ELSE IF JsGeq(percentage, 55) THEN "C"
  ELSE IF JsGeq(percentage, 50) THEN "C-"
  ELSE IF JsGeq(percentage, 45) THEN "D"
  ELSE "F"

\* if (percentage >= 90) letterGrade = 'A+'; else if ... else letterGrade = 'F'
LetterGrade(percentage) ==
  IF JsGeq(percentage, 90) THEN "A+"
  ELSE IF JsGeq(percentage, 85) THEN "A"
  ELSE IF JsGeq(percentage, 80) THEN "A-"
  ELSE IF JsGeq(percentage, 75) THEN "B+"
  ELSE IF JsGeq(percentage, 70) THEN "B"
  ELSE IF JsGeq(percentage, 65) THEN "B-"
  ELSE IF JsGeq(percentage, 60) THEN "C+"
  ELSE IF JsGeq(percentage, 55) THEN "C"
  ELSE IF JsGeq(percentage, 50) THEN "C-"
  ELSE IF JsGeq(percentage, 45) THEN "D"
  ELSE "F"

\* io.to(`user_${student}`).emit('grade_updated', { ... })
GradeUpdated(id, grade) ==
  [type |-> "grade_updated", gradeId |-> id, studentId |-> grade.student,
   courseId |-> grade.course, pointsEarned |-> grade.pointsEarned,
   maxPoints |-> grade.maxPoints, percentage |-> grade.percentage,
   letterGrade |-> grade.letterGrade]

\* the range check of POST with its upper bound left out
PostOutOfRangeBelow(pointsEarned, maxPoints) == pointsEarned < 0

\* pointsEarned < 0 || pointsEarned > maxPoints
PostOutOfRange(pointsEarned, maxPoints) ==
  pointsEarned < 0 \/ pointsEarned > maxPoints

\* the status POST /grades answers a body with, ahead of Grade.create
PostRefusal(body) ==
  IF \/ NoVal \in {body.student, body.course, body.gradeType}
     \/ body.pointsEarned = <<>>
     \/ body.maxPoints = <<>>
  THEN 400
  ELSE IF PostOutOfRange(body.pointsEarned[1], body.maxPoints[1]) THEN 400
  ELSE IF body.student \notin DOMAIN studentDocs THEN 404
  ELSE IF ~Enrolled(body.course, body.student) THEN 400
  ELSE IF /\ body.assignment # NoVal
          /\ \/ body.assignment \notin DOMAIN assignmentDocs \ deleted
             \/ assignmentDocs[body.assignment].course # body.course
  THEN 400
  ELSE IF /\ body.user.role = "teacher"
          /\ \/ TeacherByUser(body.user.id) = NoVal
             \/ courseDocs[body.course].instructor # TeacherByUser(body.user.id)
  THEN 403
  ELSE 0

\* Grade.create with the schema's validators (a rejected document ends in the
\* error handler's 500), the grade_updated event and the 201
GradeCreate(body) ==
  LET gradedBy == IF body.user.role = "admin" THEN body.gradedBy
                  ELSE TeacherByUser(body.user.id)
      pointsEarned == body.pointsEarned[1]
      maxPoints == body.maxPoints[1]
      percentage == Percentage(pointsEarned, maxPoints)
      grade == [student |-> body.student, course |-> body.course,
                assignment |-> body.assignment, gradeType |-> body.gradeType,
                pointsEarned |-> pointsEarned, maxPoints |-> maxPoints,
                percentage |-> percentage, letterGrade |-> LetterGrade(percentage),
                gradedBy |-> gradedBy]
  IN
  IF \/ maxPoints < 1
     \/ gradedBy = NoVal
     \/ body.gradeType \notin GradeTypeEnum
  THEN /\ gradeResp' = [status |-> 500]
       /\ UNCHANGED <<grades, gradeEvent>>
  ELSE /\ grades' = Append(grades, grade)
       /\ gradeEvent' = GradeUpdated(Len(grades) + 1, grade)
       /\ gradeResp' = [status |-> 201]

\* the whole handler for one body: the checks, then Grade.create
PostGrade(body) ==
  /\ Len(grades) < MaxGrades
  /\ IF PostRefusal(body) # 0
     THEN /\ gradeResp' = [status |-> PostRefusal(body)]
          /\ UNCHANGED <<grades, gradeEvent>>
     ELSE GradeCreate(body)
  /\ UNCHANGED <<attVars, aggVars, restVars>>

\* POST /api/grades with a body of the caller's choice
CreateGrade ==
  /\ gradeReq = NoBody
  /\ \E body \in PostBodies : PostGrade(body)
  /\ UNCHANGED gradeReq

\* the grade saved with its new numbers and the percentage and letter it had
NotRecomputed(grade, pointsEarned, maxPoints) ==
  [grade EXCEPT !.pointsEarned = pointsEarned, !.maxPoints = maxPoints]

\* grade.pointsEarned and grade.maxPoints assigned, then grade.percentage and
\* grade.letterGrade computed from them
Recomputed(grade, pointsEarned, maxPoints) ==
  [grade EXCEPT !.pointsEarned = pointsEarned, !.maxPoints = maxPoints,
                !.percentage = Percentage(pointsEarned, maxPoints),
                !.letterGrade = LetterGrade(Percentage(pointsEarned, maxPoints))]

\* the numbers of a PUT: pointsEarned alone, maxPoints alone, and pairs of
\* both in and out of range
PutPairs ==
  {<<pe, <<>>>> : pe \in PointsChoices} \cup
  {<<<<>>, mp>> : mp \in ScaleChoices \cup {<<-1>>}} \cup
  {<<<<a>>, <<b>>>> : a \in {-1, 0, 1, 2}, b \in {0, 1}} \cup
  {<<<<MaxPoints>>, <<MaxPoints>>>>, <<<<MaxPoints + 1>>, <<MaxPoints>>>>}

\* the admin with each of them, and each teacher with a pair that is in range
PutBodies ==
  {[user |-> [role |-> "admin", id |-> "u0"], pointsEarned |-> pm[1],
    maxPoints |-> pm[2]] : pm \in PutPairs} \cup
  {[user |-> u, pointsEarned |-> <<1>>, maxPoints |-> <<1>>] : u \in Graders}

\* PUT /api/grades/:id: the whole handler
UpdateGrade ==
  /\ gradeReq = NoBody
  /\ \E id \in 1..(Len(grades) + 1) :
     \E body \in IF id > Len(grades) THEN {CHOOSE b \in PutBodies : TRUE}
                 ELSE PutBodies :
       LET grade == grades[id]
           teacher == TeacherByUser(body.user.id)
           pointsEarned == IF body.pointsEarned # <<>> THEN body.pointsEarned[1]
                           ELSE grade.pointsEarned
           maxPoints == IF body.maxPoints # <<>> THEN body.maxPoints[1]
                        ELSE grade.maxPoints
           updatedGrade == Recomputed(grade, pointsEarned, maxPoints)
       IN
       IF id > Len(grades)
       THEN /\ gradeResp' = [status |-> 404]
            /\ UNCHANGED <<grades, gradeEvent>>
       ELSE IF /\ body.user.role = "teacher"
               /\ \/ teacher = NoVal
                  \/ courseDocs[grade.course].instructor # teacher
       THEN /\ gradeResp' = [status |-> 403]
            /\ UNCHANGED <<grades, gradeEvent>>
       ELSE IF /\ body.pointsEarned # <<>>
               /\ \/ body.pointsEarned[1] < 0
                  \* pointsEarned > undefined is false
                  \/ body.maxPoints # <<>> /\ body.pointsEarned[1] > body.maxPoints[1]
       THEN /\ gradeResp' = [status |-> 400]
            /\ UNCHANGED <<grades, gradeEvent>>
       ELSE IF body.maxPoints # <<>> /\ body.maxPoints[1] <= 0
       THEN /\ gradeResp' = [status |-> 400]
            /\ UNCHANGED <<grades, gradeEvent>>
       ELSE /\ grades' = [grades EXCEPT ![id] = updatedGrade]
            /\ gradeEvent' = GradeUpdated(id, updatedGrade)
            /\ gradeResp' = [status |-> 200]
  /\ UNCHANGED <<attVars, aggVars, gradeReq, restVars>>

\* POST /api/grades with the body held in gradeReq
HandlePost ==
  /\ gradeReq # NoBody
  /\ gradeResp = NoResponse
  /\ PostGrade(gradeReq)
  /\ UNCHANGED gradeReq

(***************************************************************************)
(* GET /api/grades/student/:studentId/summary.                             *)
(***************************************************************************)
NoSummaryQuery == [user |-> [role |-> NoVal, id |-> NoVal], studentId |-> NoVal]

\* every caller asking for the summary of each student
SummaryQueries ==
  {[user |-> u, studentId |-> s] : u \in Callers, s \in {"s1", "s2", "s9"}}

\* the ids of the grades of a student, in the order of the collection
GradesOf(studentId) ==
  SelectSeq([i \in 1..Len(grades) |-> i], LAMBDA i : grades[i].student = studentId)

\* [...new Set(allGrades.map(g => g.course._id.toString()))]: the courses of
\* the grades, each once, in the order of its first grade
AllCourses(allGrades) ==
  LET first == SelectSeq(allGrades,
                 LAMBDA i : \A j \in 1..Len(grades) :
                   (j < i /\ grades[j].student = grades[i].student)
                     => grades[j].course # grades[i].course)
  IN  [k \in 1..Len(first) |-> grades[first[k]].course]

RECURSIVE JsSum(_)
\* xs.reduce((sum, x) => sum + x, 0)
JsSum(xs) ==
  IF xs = <<>> THEN JsZero
  ELSE JsAdd(JsSum(SubSeq(xs, 1, Len(xs) - 1)), xs[Len(xs)])

\* parseFloat((xs.reduce(...) / xs.length).toFixed(2))
MeanToFixed(xs) == ParseHundredths(ToFixed2(JsDivBy(JsSum(xs), Len(xs))))

\* the numbers the overall figure is the mean of: the percentages of all grades
GpaTermsAllGrades(courseAverages, percentages) == percentages

\* Object.values(courseAverages).map(c => c.average)
GpaTerms(courseAverages, percentages) ==
  [k \in 1..Len(courseAverages) |-> courseAverages[k].average]

GetGradesSummary ==
  LET q == summaryReq
      student == studentDocs[q.studentId]
      allGrades == GradesOf(q.studentId)
      allCourses == AllCourses(allGrades)
      courseGrades(courseId) ==
        SelectSeq(allGrades, LAMBDA i : grades[i].course = courseId)
      courseAverages ==
        [k \in 1..Len(allCourses) |->
           LET ids == courseGrades(allCourses[k])
           IN  [course |-> allCourses[k],
                average |-> MeanToFixed([n \in 1..Len(ids) |-> grades[ids[n]].percentage]),
                totalGrades |-> Len(ids),
                grades |-> ids]]
      allAverages ==
        GpaTerms(courseAverages,
                 [n \in 1..Len(allGrades) |-> grades[allGrades[n]].percentage])
  IN
  /\ q.studentId # NoVal
  /\ summaryResp = NoResponse
  /\ summaryResp' =
       IF q.studentId \notin DOMAIN studentDocs THEN [status |-> 404]
       ELSE IF q.user.role = "student" /\ student.user # q.user.id
       THEN [status |-> 403]
       ELSE IF q.user.role = "parent" /\ student.parent = NoVal
       THEN [status |-> 500]
       ELSE IF q.user.role = "parent" /\ student.parent # q.user.id
       THEN [status |-> 403]
       ELSE [status |-> 200,
             gradesByCourse |-> courseAverages,
             overallGPA |-> IF Len(allAverages) > 0 THEN MeanToFixed(allAverages)
                            ELSE JsZero,
             totalGrades |-> Len(allGrades)]
  /\ UNCHANGED <<attVars, aggVars, gradeVars, summaryReq, enrollVars, transportVars, stockVars, readVars, otherVars>>

(***************************************************************************)
(* POST /api/courses/:id/enroll.  A request reads the course, checks it    *)
(* and, after awaiting Student.find, saves the document it read with the   *)
(* new list; other requests run between the read and the save.  A Course   *)
(* document is [enrolledStudents, maxEnrollment, v]: maxEnrollment is 0    *)
(* where the course has none, v is the version key __v.                    *)
(***************************************************************************)
MaxEnrollment == 2
MaxVersion == 2

\* req.body.students when it is not an array
NoArray == <<NoVal>>

\* req.params.id and req.body.students: for course c1 no array, the empty
\* array, one id, two ids; one student for c2 and for c9, the id of no course;
\* s9 is the id of no student
EnrollInputs ==
  {<<"c1", students>> :
     students \in {NoArray, <<>>, <<"s1">>, <<"s2">>, <<"s3">>, <<"s9">>,
                   <<"s1", "s2">>, <<"s3", "s3">>, <<"s2", "s9">>}} \cup
  {<<"c2", <<"s1">>>>, <<"c9", <<"s1">>>>}

NoEnroll ==
  [pc |-> "idle", id |-> NoVal, students |-> <<>>,
   course |-> [enrolledStudents |-> <<>>, maxEnrollment |-> 0, v |-> 0],
   newStudents |-> <<>>, resp |-> NoResponse]

\* no capacity check
CapacityUnchecked(course, students) == FALSE

\* course.maxEnrollment && the request counted against what is left
CapacityNewOnly(course, students) ==
  /\ course.maxEnrollment # 0
  /\ Len(course.enrolledStudents)
       + Len(SelectSeq(students, LAMBDA x : \A i \in 1..Len(course.enrolledStudents) :
                                               course.enrolledStudents[i] # x))
       > course.maxEnrollment

\* course.maxEnrollment &&
\*   (course.enrolledStudents.length + students.length) > course.maxEnrollment
OverCapacity(course, students) ==
  /\ course.maxEnrollment # 0
  /\ Len(course.enrolledStudents) + Len(students) > course.maxEnrollment

\* course.save() after the array was assigned whole: Mongoose updates the
\* document where __v is the version that was read, and increments it; no match
\* raises a VersionError
SaveMatches(stored, read) == stored.v = read.v

\* a client sends POST /api/courses/:id/enroll
EnrollSend(r) ==
  \E input \in EnrollInputs :
    /\ enrollReqs[r].pc \in {"idle", "done"}
    /\ \A c \in DOMAIN courses : courses[c].v < MaxVersion
    /\ enrollReqs' = [enrollReqs EXCEPT ![r] =
                        [NoEnroll EXCEPT !.pc = "read", !.id = input[1],
                                         !.students = input[2]]]
    /\ UNCHANGED <<attVars, aggVars, gradeVars, sumVars, courses, transportVars, stockVars, readVars, otherVars>>

\* the handler up to course.save(): Course.findById and the checks
EnrollRead(r) ==
  LET id == enrollReqs[r].id
      students == enrollReqs[r].students
      course == courses[id]
      notFoundStudents == SelectSeq(students, LAMBDA x : x \notin DOMAIN studentDocs)
      newStudents ==
        SelectSeq(students, LAMBDA x : \A i \in 1..Len(course.enrolledStudents) :
                                         course.enrolledStudents[i] # x)
      answer(resp) ==
        enrollReqs' = [enrollReqs EXCEPT ![r] = [NoEnroll EXCEPT !.pc = "done",
                                                                 !.resp = resp]]
  IN
  /\ enrollReqs[r].pc = "read"
  /\ IF students = NoArray \/ students = <<>>
     THEN answer([status |-> 400, message |-> "array"])
     ELSE IF id \notin DOMAIN courses
     THEN answer([status |-> 404, message |-> "course"])
     ELSE IF OverCapacity(course, students)
     THEN answer([status |-> 400, message |-> "capacity",
                  maxEnrollment |-> course.maxEnrollment])
     ELSE IF notFoundStudents # <<>>
     THEN answer([status |-> 404, message |-> "students"])
     ELSE IF newStudents = <<>>
     THEN answer([status |-> 200, message |-> "already"])
     ELSE enrollReqs' = [enrollReqs EXCEPT ![r].pc = "save", ![r].course = course,
                                           ![r].newStudents = newStudents]
  /\ UNCHANGED <<attVars, aggVars, gradeVars, sumVars, courses, transportVars, stockVars, readVars, otherVars>>

\* course.enrolledStudents = [...course.enrolledStudents, ...newStudents];
\* await course.save(); and the response, or the error handler's 500
EnrollSave(r) ==
  LET q == enrollReqs[r]
      saved == [q.course EXCEPT !.enrolledStudents = q.course.enrolledStudents \o q.newStudents,
                                !.v = q.course.v + 1]
  IN
  /\ q.pc = "save"
  /\ IF SaveMatches(courses[q.id], q.course)
     THEN /\ courses' = [courses EXCEPT ![q.id] = saved]
          /\ enrollReqs' = [enrollReqs EXCEPT ![r] =
                              [NoEnroll EXCEPT !.pc = "done",
                                 !.resp = [status |-> 200, message |-> "enrolled",
                                           newlyEnrolled |-> q.newStudents]]]
     ELSE /\ enrollReqs' = [enrollReqs EXCEPT ![r] =
                              [NoEnroll EXCEPT !.pc = "done", !.resp = [status |-> 500]]]
          /\ UNCHANGED courses
  /\ UNCHANGED <<attVars, aggVars, gradeVars, sumVars, transportVars, stockVars, readVars, otherVars>>

\* PUT /api/courses/:id by the admin with a body that holds the list of
\* enrolledStudents less one of them: Course.findByIdAndUpdate(id, req.body)
RemoveStudent ==
  \E id \in DOMAIN courses, k \in 1..3 :
    LET list == courses[id].enrolledStudents
    IN  /\ k <= Len(list)
        /\ courses' = [courses EXCEPT ![id].enrolledStudents =
                         SubSeq(list, 1, k - 1) \o SubSeq(list, k + 1, Len(list))]
        /\ UNCHANGED <<attVars, aggVars, gradeVars, sumVars, enrollReqs, transportVars, stockVars, readVars, otherVars>>

(***************************************************************************)
(* The /api/transport handlers on one Transport record of vehicle v1.      *)
(* assign-students reads the record, awaits Student.find and saves; the    *)
(* other handlers run between its read and its save.                       *)
(***************************************************************************)
\* Vehicle v1's capacity
VehicleCapacity == 2

NoTransport ==
  [exists |-> FALSE, capacity |-> 0, status |-> "active", assignedStudents |-> <<>>,
   v |-> 0]

\* req.body.capacity: absent, or a number from -1 to above the vehicle's
CapacityChoices == {<<>>} \cup {<<n>> : n \in -1..(VehicleCapacity + 1)}

TransportStatusEnum == {"active", "maintenance", "decommissioned"}

\* POST /api/transport for an existing route and driver; v9 is no vehicle
CreateTransport ==
  \E vehicle \in {NoVal, "v1", "v9"}, capacity \in CapacityChoices :
    /\ ~transport.exists
    /\ IF vehicle = NoVal THEN transportResp' = [status |-> 400] /\ UNCHANGED transport
       ELSE IF vehicle = "v9" THEN transportResp' = [status |-> 404] /\ UNCHANGED transport
       ELSE IF capacity # <<>> /\ capacity[1] > VehicleCapacity
       THEN transportResp' = [status |-> 400] /\ UNCHANGED transport
       ELSE IF capacity = <<>>
       THEN transportResp' = [status |-> 500] /\ UNCHANGED transport
       ELSE /\ transport' = [NoTransport EXCEPT !.exists = TRUE, !.capacity = capacity[1]]
            /\ transportResp' = [status |-> 201]
    /\ UNCHANGED <<attVars, aggVars, gradeVars, sumVars, enrollVars, assignReqs, stockVars, readVars, otherVars>>

\* PUT /api/transport/:id with capacity, status, both or neither
UpdateTransport ==
  \E capacity \in CapacityChoices,
     status \in TransportStatusEnum \cup {NoVal, "retired"} :
    /\ IF ~transport.exists THEN transportResp' = [status |-> 404] /\ UNCHANGED transport
       ELSE IF capacity # <<>> /\ capacity[1] > VehicleCapacity
       THEN transportResp' = [status |-> 400] /\ UNCHANGED transport
       ELSE IF status # NoVal /\ status \notin TransportStatusEnum
       THEN transportResp' = [status |-> 500] /\ UNCHANGED transport
       ELSE /\ transport' =
                 [transport EXCEPT
                    !.capacity = IF capacity # <<>> THEN capacity[1] ELSE @,
                    !.status = IF status # NoVal THEN status ELSE @]
            /\ transportResp' = [status |-> 200]
    /\ UNCHANGED <<attVars, aggVars, gradeVars, sumVars, enrollVars, assignReqs, stockVars, readVars, otherVars>>

\* req.body.students of assign-students and remove-students
AssignBodies ==
  {NoArray, <<>>, <<"s1">>, <<"s2">>, <<"s9">>, <<"s1", "s2">>}

\* a client sends POST /api/transport/:id/assign-students
AssignSend(r) ==
  \E students \in AssignBodies :
    /\ assignReqs[r].pc \in {"idle", "done"}
    /\ transport.v < MaxVersion
    /\ assignReqs' = [assignReqs EXCEPT ![r] =
                        [NoEnroll EXCEPT !.pc = "read", !.students = students]]
    /\ UNCHANGED <<attVars, aggVars, gradeVars, sumVars, enrollVars, transport,
                   transportResp, stockVars, readVars, otherVars>>

\* transport.status !== 'active'
NotActive(status) == status # "active"

\* the handler up to transport.save(): Transport.findById and the checks
AssignRead(r) ==
  LET students == assignReqs[r].students
      assigned == transport.assignedStudents
      newStudents ==
        SelectSeq(students, LAMBDA x : \A i \in 1..Len(assigned) : assigned[i] # x)
      answer(resp) ==
        assignReqs' = [assignReqs EXCEPT ![r] = [NoEnroll EXCEPT !.pc = "done",
                                                                 !.resp = resp]]
  IN
  /\ assignReqs[r].pc = "read"
  /\ IF students = NoArray \/ students = <<>>
     THEN answer([status |-> 400, message |-> "array"])
     ELSE IF ~transport.exists
     THEN answer([status |-> 404, message |-> "transport"])
     ELSE IF NotActive(transport.status)
     THEN answer([status |-> 400, message |-> "inactive"])
     ELSE IF Len(assigned) + Len(students) > transport.capacity
     THEN answer([status |-> 400, message |-> "capacity"])
     ELSE IF \E i \in 1..Len(students) : students[i] \notin DOMAIN studentDocs
     THEN answer([status |-> 404, message |-> "students"])
     ELSE IF newStudents = <<>>
     THEN answer([status |-> 200, message |-> "already"])
     ELSE assignReqs' = [assignReqs EXCEPT ![r].pc = "save",
                           ![r].course = [enrolledStudents |-> assigned,
                                          maxEnrollment |-> 0, v |-> transport.v],
                           ![r].newStudents = newStudents]
  /\ UNCHANGED <<attVars, aggVars, gradeVars, sumVars, enrollVars, transport,
                 transportResp, stockVars, readVars, otherVars>>

\* transport.assignedStudents = [...assigned, ...newStudents];
\* await transport.save(): only the list is written, where __v is as read
AssignSave(r) ==
  LET q == assignReqs[r]
  IN
  /\ q.pc = "save"
  /\ IF transport.exists /\ SaveMatches(transport, q.course)
     THEN /\ transport' = [transport EXCEPT
                             !.assignedStudents = q.course.enrolledStudents \o q.newStudents,
                             !.v = @ + 1]
          /\ assignReqs' = [assignReqs EXCEPT ![r] =
                              [NoEnroll EXCEPT !.pc = "done",
                                 !.resp = [status |-> 200, message |-> "assigned"]]]
     ELSE /\ assignReqs' = [assignReqs EXCEPT ![r] =
                              [NoEnroll EXCEPT !.pc = "done", !.resp = [status |-> 500]]]
          /\ UNCHANGED transport
  /\ UNCHANGED <<attVars, aggVars, gradeVars, sumVars, enrollVars, transportResp, stockVars, readVars, otherVars>>

\* POST /api/transport/:id/remove-students
RemoveStudents ==
  \E students \in {<<>>, <<"s1">>, <<"s1", "s3">>} :
    LET updatedAssignedStudents ==
          SelectSeq(transport.assignedStudents,
                    LAMBDA x : \A i \in 1..Len(students) : students[i] # x)
    IN
    /\ IF students = <<>> THEN transportResp' = [status |-> 400] /\ UNCHANGED transport
       ELSE IF ~transport.exists
       THEN transportResp' = [status |-> 404] /\ UNCHANGED transport
       ELSE /\ transport' =
                 [transport EXCEPT
                    !.assignedStudents = updatedAssignedStudents,
                    !.v = IF updatedAssignedStudents # transport.assignedStudents
                          THEN @ + 1 ELSE @]
            /\ transportResp' = [status |-> 200]
    /\ UNCHANGED <<attVars, aggVars, gradeVars, sumVars, enrollVars, assignReqs, stockVars, readVars, otherVars>>

(***************************************************************************)
(* POST /api/inventory/:id/stock-update on one Inventory item.  A request  *)
(* reads the item, computes and saves; other requests run between its read *)
(* and its save.                                                           *)
(***************************************************************************)
StartQuantity == 2
MaxQuantity == 3
MaxChange == 4

\* an item the inventory holds, with a unit price of 3
StockedItem(quantity, minStockLevel) ==
  [quantity |-> quantity, minStockLevel |-> minStockLevel, unitPrice |-> 3,
   totalValue |-> quantity * 3, status |-> "available"]

NoStock == [pc |-> "idle", quantityChange |-> 0, read |-> 0, resp |-> NoResponse]

\* the two numbers, whatever their sum
UnclampedQuantity(quantity, quantityChange) == quantity + quantityChange

\* Math.max(0, item.quantity + quantityChange)
NewQuantity(quantity, quantityChange) ==
  IF quantity + quantityChange > 0 THEN quantity + quantityChange ELSE 0

\* the status the handler gives an item of newQuantity pieces
StockStatus(newQuantity, minStockLevel) ==
  IF newQuantity = 0 THEN "damaged"
  ELSE IF newQuantity < minStockLevel THEN "available"
  ELSE "available"

\* the handler up to item.save(): the body's check and Inventory.findById; i9
\* is the id of no item, and a body may lack quantityChange
StockRead(r) ==
  \E id \in {"i1", "i9"}, quantityChange \in {<<>>} \cup {<<n>> : n \in -MaxChange..MaxChange} :
    /\ stockReqs[r].pc \in {"idle", "done"}
    /\ quantityChange # <<>> => stockItem.quantity + quantityChange[1] <= MaxQuantity
    /\ stockReqs' =
         [stockReqs EXCEPT ![r] =
            IF quantityChange = <<>> THEN [NoStock EXCEPT !.pc = "done", !.resp = [status |-> 400]]
            ELSE IF id = "i9" THEN [NoStock EXCEPT !.pc = "done", !.resp = [status |-> 404]]
            ELSE [NoStock EXCEPT !.pc = "save", !.quantityChange = quantityChange[1],
                                 !.read = stockItem.quantity]]
    /\ UNCHANGED <<attVars, aggVars, gradeVars, sumVars, enrollVars, transportVars,
                   stockItem, stockEvent, readVars, otherVars>>

\* what io.emit does: it publishes the event, there is no socket server
\* (req.app.get('io') is undefined), or the call throws
EmitOutcomes == {"sent", "no io", "throws"}

\* item.save() of the quantity, the total value and the status; then the
\* low_stock_alert when the saved quantity is below minStockLevel, and the
\* response, or the error handler's 500 when the emit threw
StockSave(r) ==
  \E outcome \in EmitOutcomes :
    LET q == stockReqs[r]
        newQuantity == NewQuantity(q.read, q.quantityChange)
        updatedItem == [stockItem EXCEPT !.quantity = newQuantity,
                                    !.totalValue = newQuantity * stockItem.unitPrice,
                                    !.status = StockStatus(newQuantity, stockItem.minStockLevel)]
        low == updatedItem.quantity < updatedItem.minStockLevel
    IN
    /\ q.pc = "save"
    /\ ~low => outcome = "sent"
    /\ stockItem' = updatedItem
    /\ stockEvent' = IF low /\ outcome = "sent"
                     THEN [type |-> "low_stock_alert", currentQuantity |-> newQuantity,
                           minLevel |-> updatedItem.minStockLevel]
                     ELSE stockEvent
    /\ stockReqs' = [stockReqs EXCEPT ![r].pc = "done",
                       ![r].resp = IF low /\ outcome = "throws" THEN [status |-> 500]
                                   ELSE [status |-> 200]]
    /\ UNCHANGED <<attVars, aggVars, gradeVars, sumVars, enrollVars, transportVars,
                   readVars, otherVars>>

(***************************************************************************)
(* The read paths GET /api/attendance, GET /api/grades and                 *)
(* GET /api/grades/:id.                                                    *)
(***************************************************************************)
NoRead == [kind |-> NoVal, user |-> [role |-> NoVal, id |-> NoVal], student |-> NoVal,
           id |-> 0]

\* every caller asking for a list with and without the student filter, and for
\* each grade by its id; 3 is the id of no grade
ReadQueries ==
  {[kind |-> k, user |-> u, student |-> s, id |-> 0] :
     k \in {"attendance", "grades"}, u \in Callers, s \in {NoVal, "s1", "s2"}} \cup
  {[kind |-> "grade", user |-> u, student |-> NoVal, id |-> i] :
     u \in Callers, i \in 1..3}

\* Student.findOne({ user: id })._id, NoVal where there is none
StudentByUser(id) ==
  IF \E s \in DOMAIN studentDocs : studentDocs[s].user = id
  THEN CHOOSE s \in DOMAIN studentDocs : studentDocs[s].user = id
  ELSE NoVal

\* GET /api/attendance?student=: the records the query matches
GetAttendanceList ==
  /\ readReq.kind = "attendance"
  /\ readResp = NoResponse
  /\ readResp' =
       [status |-> 200,
        students |-> {rec.student : rec \in
                        {x \in attendance : readReq.student \in {NoVal, x.student}}}]
  /\ UNCHANGED <<attVars, aggVars, gradeVars, sumVars, enrollVars, transportVars,
                 stockVars, readReq, otherVars>>

\* GET /api/grades?student=: the grades the query matches
GetGrades ==
  /\ readReq.kind = "grades"
  /\ readResp = NoResponse
  /\ readResp' =
       [status |-> 200,
        students |-> {grades[i].student : i \in
                        {j \in 1..Len(grades) : readReq.student \in {NoVal, grades[j].student}}}]
  /\ UNCHANGED <<attVars, aggVars, gradeVars, sumVars, enrollVars, transportVars,
                 stockVars, readReq, otherVars>>

\* GET /api/grades/:id
GetGradeById ==
  LET q == readReq
      grade == grades[q.id]
  IN
  /\ q.kind = "grade"
  /\ readResp = NoResponse
  /\ readResp' =
       IF q.id \notin 1..Len(grades) THEN [status |-> 404, students |-> {}]
       ELSE IF q.user.role = "student" /\ StudentByUser(q.user.id) # grade.student
       THEN [status |-> 403, students |-> {}]
       ELSE IF q.user.role = "parent" /\ studentDocs[grade.student].parent # q.user.id
       THEN [status |-> 403, students |-> {}]
       ELSE [status |-> 200, students |-> {grade.student}]
  /\ UNCHANGED <<attVars, aggVars, gradeVars, sumVars, enrollVars, transportVars,
                 stockVars, readReq, otherVars>>

(***************************************************************************)
(* DELETE /api/assignments/:id beside a POST /api/grades.  The handler     *)
(* looks for a grade of the assignment and removes the assignment at its   *)
(* next await; the POST reads the assignment and creates the grade at a    *)
(* later await.  Each handler is two steps, so that the other runs between *)
(* its read and its write.                                                 *)
(***************************************************************************)
NoDelete ==
  [user |-> [role |-> NoVal, id |-> NoVal], id |-> NoVal, phase |-> "idle", status |-> 0]

\* each caller checkRole('teacher', 'admin') lets through, deleting each
\* assignment; a9 is the id of no assignment
DeleteRequests ==
  {[NoDelete EXCEPT !.user = u, !.id = a, !.phase = "read"] :
     u \in Graders, a \in {"a1", "a2", "a9"}}

\* POST bodies of each grader for s1 in c1 that name an assignment or none
AssignmentBodies ==
  {[PlainBody EXCEPT !.user = u, !.gradedBy = "t1", !.assignment = a,
                     !.pointsEarned = <<1>>, !.maxPoints = <<1>>] :
     u \in Graders, a \in {NoVal, "a1", "a2"}}

\* Assignment.findById, the instructor check and Grade.findOne({ assignment })
DeleteRead ==
  LET q == delReq
      teacher == TeacherByUser(q.user.id)
      status ==
        IF q.id \notin DOMAIN assignmentDocs \ deleted THEN 404
        ELSE IF /\ q.user.role = "teacher"
                /\ \/ teacher = NoVal
                   \/ assignmentDocs[q.id].instructor # teacher
        THEN 403
        ELSE IF \E i \in 1..Len(grades) : grades[i].assignment = q.id THEN 400
        ELSE 0
  IN
  /\ q.phase = "read"
  /\ delReq' = IF status # 0 THEN [q EXCEPT !.phase = "done", !.status = status]
               ELSE [q EXCEPT !.phase = "remove"]
  /\ UNCHANGED <<attVars, aggVars, gradeVars, sumVars, enrollVars, transportVars,
                 stockVars, readVars, deleted, postPhase, socketVars, feeVars>>

\* await assignment.remove() and the 200
DeleteRemove ==
  /\ delReq.phase = "remove"
  /\ deleted' = deleted \cup {delReq.id}
  /\ delReq' = [delReq EXCEPT !.phase = "done", !.status = 200]
  /\ UNCHANGED <<attVars, aggVars, gradeVars, sumVars, enrollVars, transportVars,
                 stockVars, readVars, postPhase, socketVars, feeVars>>

\* POST /api/grades up to its authorization check: the body's checks and the
\* reads of the student, the course, the assignment and the teacher
PostRead ==
  /\ postPhase = "read"
  /\ IF PostRefusal(gradeReq) # 0
     THEN /\ gradeResp' = [status |-> PostRefusal(gradeReq)]
          /\ postPhase' = "done"
     ELSE /\ postPhase' = "create"
          /\ UNCHANGED gradeResp
  /\ UNCHANGED <<attVars, aggVars, grades, gradeReq, gradeEvent, sumVars, enrollVars,
                 transportVars, stockVars, readVars, deleted, delReq, socketVars, feeVars>>

\* await Grade.create of the same request, the event and the 201
PostCreate ==
  /\ postPhase = "create"
  /\ GradeCreate(gradeReq)
  /\ postPhase' = "done"
  /\ UNCHANGED <<attVars, aggVars, gradeReq, sumVars, enrollVars, transportVars,
                 stockVars, readVars, deleted, delReq, socketVars, feeVars>>

(***************************************************************************)
(* The Socket.IO server: io.on('connection') and the handlers it installs  *)
(* on each socket.  Each handler runs to its end without an await.         *)
(***************************************************************************)
\* the sockets of a run; Socket.IO gives each connection a socket id of its own
Sockets == {"k1", "k2", "k3"}

\* the user ids a client sends
UserIds == {"u1", "u2"}

NewSocket == [state |-> "new", userId |-> NoVal]

NoNotification == [recipient |-> NoVal, from |-> NoVal, to |-> {}]

\* connectedUsers.get(userId), NoVal for undefined
MapGet(map, userId) ==
  IF \E i \in 1..Len(map) : map[i].userId = userId
  THEN map[CHOOSE i \in 1..Len(map) : map[i].userId = userId].socketId
  ELSE NoVal

\* connectedUsers.set(userId, socketId): a key the Map holds keeps its place
MapSet(map, userId, socketId) ==
  IF \E i \in 1..Len(map) : map[i].userId = userId
  THEN [i \in 1..Len(map) |->
          IF map[i].userId = userId THEN [map[i] EXCEPT !.socketId = socketId]
          ELSE map[i]]
  ELSE Append(map, [userId |-> userId, socketId |-> socketId])

\* the loop of the disconnect handler: the first entry of the socket, in the
\* Map's insertion order, is deleted
DeleteFirstOf(map, socketId) ==
  IF \E i \in 1..Len(map) : map[i].socketId = socketId
  THEN LET first == CHOOSE i \in 1..Len(map) :
                      /\ map[i].socketId = socketId
                      /\ \A j \in 1..(i - 1) : map[j].socketId # socketId
       IN  [i \in 1..(Len(map) - 1) |-> IF i < first THEN map[i] ELSE map[i + 1]]
  ELSE map

\* a client connects
Connection(k) ==
  /\ sockets[k].state = "new"
  /\ sockets' = [sockets EXCEPT ![k].state = "connected"]
  /\ UNCHANGED <<attVars, aggVars, gradeVars, sumVars, enrollVars, transportVars,
                 stockVars, readVars, deleteVars, feeVars, connectedUsers, notified>>

\* socket.on('user_connected')
UserConnected(k) ==
  /\ sockets[k].state = "connected"
  /\ \E userId \in UserIds :
       /\ connectedUsers' = MapSet(connectedUsers, userId, k)
       /\ sockets' = [sockets EXCEPT ![k].userId = userId]
  /\ UNCHANGED <<attVars, aggVars, gradeVars, sumVars, enrollVars, transportVars,
                 stockVars, readVars, deleteVars, feeVars, notified>>

\* socket.on('send_notification'): io.emit reaches every connected socket,
\* io.to(id) the sockets in the room of that id, the socket itself while it
\* is connected
SendNotification(k) ==
  /\ sockets[k].state = "connected"
  /\ \E recipient \in UserIds \cup {NoVal} :
       LET recipientSocketId == MapGet(connectedUsers, recipient)
           AllConnected == {x \in Sockets : sockets[x].state = "connected"}
           Room(socketId) == {x \in AllConnected : x = socketId}
       IN  notified' =
             [recipient |-> recipient, from |-> k,
              to |-> IF recipient # NoVal /\ recipientSocketId # NoVal
                     THEN Room(recipientSocketId)
                     ELSE AllConnected]
  /\ UNCHANGED <<attVars, aggVars, gradeVars, sumVars, enrollVars, transportVars,
                 stockVars, readVars, deleteVars, feeVars, sockets, connectedUsers>>

\* socket.on('disconnect')
Disconnect(k) ==
  /\ sockets[k].state = "connected"
  /\ sockets' = [sockets EXCEPT ![k].state = "gone"]
  /\ connectedUsers' = DeleteFirstOf(connectedUsers, k)
  /\ UNCHANGED <<attVars, aggVars, gradeVars, sumVars, enrollVars, transportVars,
                 stockVars, readVars, deleteVars, feeVars, notified>>

(***************************************************************************)
(* POST /api/fees/:id/pay.  The handler reads the fee, checks its status   *)
(* and saves it at its next await; another request runs between the two.  *)
(***************************************************************************)
MaxClock == 3

PaymentMethodEnum == {"cash", "check", "online", "bank_transfer", "other"}

\* the fee f1 as POST /fees created it; a missing date is 0
PendingFee == [status |-> "pending", paymentMethod |-> NoVal, paymentDate |-> 0]

NoPay == [pc |-> "idle", paymentMethod |-> NoVal, resp |-> NoResponse]

\* req.params.id and req.body.paymentMethod: f9 is the id of no fee, 'bitcoin'
\* is outside the schema's enum, NoVal is a body without the field
PayInputs ==
  {<<"f1", m>> : m \in {"cash", "online", "bitcoin", NoVal}} \cup {<<"f9", "cash">>}

\* fee.status === 'paid'
AlreadyPaid(doc) == doc.status = "paid"

\* Fee.findById and the check of the status
PayRead(r) ==
  \E input \in PayInputs :
    /\ payReqs[r].pc \in {"idle", "done"}
    /\ now < MaxClock
    /\ payReqs' =
         [payReqs EXCEPT ![r] =
            IF input[1] # "f1" THEN [NoPay EXCEPT !.pc = "done", !.resp = [status |-> 404]]
            ELSE IF AlreadyPaid(fee)
            THEN [NoPay EXCEPT !.pc = "done", !.resp = [status |-> 400]]
            ELSE [NoPay EXCEPT !.pc = "save", !.paymentMethod = input[2]]]
    /\ UNCHANGED <<attVars, aggVars, gradeVars, sumVars, enrollVars, transportVars,
                   stockVars, readVars, deleteVars, socketVars, fee, feePaid, now>>

\* fee.save() of status, paymentMethod and paymentDate, which Mongoose sends as
\* a $set on the document's _id; then the fee_paid event and the response.  A
\* paymentMethod outside the enum fails the validation: the error handler's 500
PaySave(r) ==
  LET q == payReqs[r] IN
  /\ q.pc = "save"
  /\ now' = now + 1
  /\ IF q.paymentMethod \notin PaymentMethodEnum \cup {NoVal}
     THEN /\ payReqs' = [payReqs EXCEPT ![r] =
                           [NoPay EXCEPT !.pc = "done", !.resp = [status |-> 500]]]
          /\ UNCHANGED <<fee, feePaid>>
     ELSE /\ fee' = [status |-> "paid", paymentMethod |-> q.paymentMethod,
                     paymentDate |-> now]
          /\ feePaid' = feePaid + 1
          /\ payReqs' = [payReqs EXCEPT ![r] =
                           [NoPay EXCEPT !.pc = "done", !.resp = [status |-> 200]]]
  /\ UNCHANGED <<attVars, aggVars, gradeVars, sumVars, enrollVars, transportVars,
                 stockVars, readVars, deleteVars, socketVars>>

(***************************************************************************)
(* Specifications.                                                         *)
(***************************************************************************)
AttInit ==
  /\ attendance = {}
  /\ reqs = [r \in Requests |-> Idle]
  /\ emitted = {}

AggIdle == aggReq = NoQuery /\ classResp = NoResponse /\ studentResp = NoResponse
GradeIdle ==
  grades = <<>> /\ gradeReq = NoBody /\ gradeResp = NoResponse /\ gradeEvent = NoEvent

SumIdle == summaryReq = NoSummaryQuery /\ summaryResp = NoResponse
EnrollIdle ==
  /\ courses = [c1 |-> [enrolledStudents |-> <<>>, maxEnrollment |-> MaxEnrollment, v |-> 0],
                c2 |-> [enrolledStudents |-> <<>>, maxEnrollment |-> 0, v |-> 0]]
  /\ enrollReqs = [r \in Requests |-> NoEnroll]
TransportIdle ==
  transport = NoTransport /\ assignReqs = [r \in Requests |-> NoEnroll]
    /\ transportResp = NoResponse
StockIdle ==
  /\ stockItem = StockedItem(StartQuantity, 0)
  /\ stockReqs = [r \in Requests |-> NoStock]
  /\ stockEvent = NoEvent
ReadIdle == readReq = NoRead /\ readResp = NoResponse
DeleteIdle == deleted = {} /\ delReq = NoDelete /\ postPhase = "idle"
SocketIdle ==
  /\ sockets = [k \in Sockets |-> NewSocket]
  /\ connectedUsers = <<>>
  /\ notified = NoNotification
FeeIdle ==
  /\ fee = PendingFee
  /\ payReqs = [r \in Requests |-> NoPay]
  /\ feePaid = 0
  /\ now = 1
OtherIdle == DeleteIdle /\ SocketIdle /\ FeeIdle
RestIdle == SumIdle /\ EnrollIdle /\ TransportIdle /\ StockIdle /\ ReadIdle /\ OtherIdle

Init == AttInit /\ AggIdle /\ GradeIdle /\ RestIdle

Next ==
  \E r \in Requests :
    \/ MarkBegin(r)
    \/ MarkCheck(r)
    \/ MarkCreate(r)
    \/ SyncBegin(r)
    \/ SyncCheck(r)
    \/ SyncCreate(r)

Spec == Init /\ [][Next]_vars

MaxRecords == 40
MaxPerStudent == 3

\* the records of one student: one a day, the first `present` of them present
\* and the others absent or late, in course c1 or c2 by turns
StudentRecords(student, present, others) ==
  {[student |-> student,
    course |-> IF k % 2 = 1 THEN "c1" ELSE "c2",
    date |-> k * TicksPerDay,
    status |-> IF k <= present THEN "present"
               ELSE IF k % 2 = 0 THEN "absent" ELSE "late",
    method |-> "manual", markedBy |-> "u7", biometricData |-> NoBiometric] :
     k \in 1..(present + others)}

Counts(max) ==
  {c \in [present : 0..max, others : 0..max] : c.present + c.others <= max}

\* GET /attendance/student/:studentId over a collection that holds up to
\* MaxRecords records of s1
StudentInit ==
  /\ attendance \in {StudentRecords("s1", c.present, c.others) : c \in Counts(MaxRecords)}
  /\ reqs = [r \in Requests |-> Idle]
  /\ emitted = {}
  /\ aggReq \in StudentQueries
  /\ classResp = NoResponse
  /\ studentResp = NoResponse
  /\ GradeIdle
  /\ RestIdle

StudentNext == GetStudentAttendance

SpecStudent == StudentInit /\ [][StudentNext]_vars

\* GET /attendance/class/:classId over a collection that holds up to
\* MaxPerStudent records of each of the three students
ClassInit ==
  /\ attendance \in
       {StudentRecords("s1", c1.present, c1.others)
          \cup StudentRecords("s2", c2.present, c2.others)
          \cup StudentRecords("s3", c3.present, c3.others) :
        c1 \in Counts(MaxPerStudent), c2 \in Counts(MaxPerStudent),
        c3 \in Counts(MaxPerStudent)}
  /\ reqs = [r \in Requests |-> Idle]
  /\ emitted = {}
  /\ aggReq \in ClassQueries
  /\ classResp = NoResponse
  /\ studentResp = NoResponse
  /\ GradeIdle
  /\ RestIdle

ClassNext == GetClassAttendance

SpecClass == ClassInit /\ [][ClassNext]_vars

\* any sequence of POST /grades and PUT /grades/:id
GradesNext == CreateGrade \/ UpdateGrade

SpecGrades == Init /\ [][GradesNext]_vars

\* one POST /grades, with any body, on the empty collection
PostInit ==
  /\ AttInit
  /\ AggIdle
  /\ grades = <<>>
  /\ gradeReq \in AllPostBodies
  /\ gradeResp = NoResponse
  /\ gradeEvent = NoEvent
  /\ RestIdle

PostNext == HandlePost

SpecGradePost == PostInit /\ [][PostNext]_vars

MaxSummaryGrades == 3

\* a grade as POST /grades stores it
StoredGrade(student, course, pointsEarned, maxPoints) ==
  [student |-> student, course |-> course, assignment |-> NoVal,
   gradeType |-> "exam", pointsEarned |-> pointsEarned, maxPoints |-> maxPoints,
   percentage |-> Percentage(pointsEarned, maxPoints),
   letterGrade |-> LetterGrade(Percentage(pointsEarned, maxPoints)),
   gradedBy |-> "t1"]

\* grades of s1 in two courses, out of 1, 3 and 20 points, and a grade of s2
SummaryGrades ==
  {StoredGrade("s1", c, pm[1], pm[2]) :
     c \in {"c1", "c2"},
     pm \in {<<0, 1>>, <<1, 1>>, <<1, 3>>, <<2, 3>>, <<7, 20>>, <<10, 20>>}} \cup
  {StoredGrade("s2", "c1", 1, 1)}

\* GET /grades/student/:studentId/summary over a collection of up to
\* MaxSummaryGrades grades; the admin's request for s1 is served on every
\* collection, the other requests where every grade is out of 1 point
SummaryInit ==
  /\ AttInit
  /\ AggIdle
  /\ grades \in UNION {[1..n -> SummaryGrades] : n \in 0..MaxSummaryGrades}
  /\ gradeReq = NoBody
  /\ gradeResp = NoResponse
  /\ gradeEvent = NoEvent
  /\ summaryReq \in SummaryQueries
  /\ \/ summaryReq = [user |-> [role |-> "admin", id |-> "u0"], studentId |-> "s1"]
     \/ \A i \in 1..Len(grades) : grades[i].maxPoints = 1
  /\ summaryResp = NoResponse
  /\ EnrollIdle
  /\ TransportIdle
  /\ StockIdle
  /\ ReadIdle
  /\ OtherIdle

SummaryNext == GetGradesSummary

SpecSummary == SummaryInit /\ [][SummaryNext]_vars

\* enroll requests of two clients, interleaved, and removals
EnrollInit ==
  /\ AttInit
  /\ AggIdle
  /\ GradeIdle
  /\ RestIdle

EnrollNext ==
  \/ \E r \in Requests : EnrollSend(r) \/ EnrollRead(r) \/ EnrollSave(r)
  \/ RemoveStudent

SpecEnroll == EnrollInit /\ [][EnrollNext]_vars

\* the transport handlers, assign-students of two clients interleaved with them
TransportNext ==
  \/ CreateTransport
  \/ UpdateTransport
  \/ \E r \in Requests : AssignSend(r) \/ AssignRead(r) \/ AssignSave(r)
  \/ RemoveStudents

SpecTransport == EnrollInit /\ [][TransportNext]_vars

\* stock updates of two clients, interleaved, on an item of StartQuantity pieces
\* whose minStockLevel is 0 or that quantity
StockInit ==
  /\ AttInit
  /\ AggIdle
  /\ GradeIdle
  /\ SumIdle
  /\ EnrollIdle
  /\ TransportIdle
  /\ stockItem \in {StockedItem(StartQuantity, m) : m \in {0, StartQuantity}}
  /\ stockReqs = [r \in Requests |-> NoStock]
  /\ stockEvent = NoEvent
  /\ ReadIdle
  /\ OtherIdle

StockNext == \E r \in Requests : StockRead(r) \/ StockSave(r)

SpecStock == StockInit /\ [][StockNext]_vars

\* one request on each read path of the attendance and grade data, by the same
\* caller, over a collection with a record and a grade of s1 and of s2; the
\* per-student and the summary request name the student of the list's filter,
\* or s3 where the list has none
ReadInit ==
  /\ attendance = StudentRecords("s1", 1, 0) \cup StudentRecords("s2", 1, 0)
  /\ reqs = [r \in Requests |-> Idle]
  /\ emitted = {}
  /\ grades = <<StoredGrade("s1", "c1", 1, 1), StoredGrade("s2", "c1", 0, 1)>>
  /\ gradeReq = NoBody
  /\ gradeResp = NoResponse
  /\ gradeEvent = NoEvent
  /\ readReq \in ReadQueries
  /\ readResp = NoResponse
  /\ aggReq = [NoQuery EXCEPT !.kind = "student", !.user = readReq.user,
                              !.studentId = IF readReq.student = NoVal THEN "s3"
                                            ELSE readReq.student]
  /\ classResp = NoResponse
  /\ studentResp = NoResponse
  /\ summaryReq = [user |-> readReq.user, studentId |-> aggReq.studentId]
  /\ summaryResp = NoResponse
  /\ EnrollIdle
  /\ TransportIdle
  /\ StockIdle
  /\ OtherIdle

ReadNext ==
  \/ GetAttendanceList
  \/ GetGrades
  \/ GetGradeById
  \/ GetStudentAttendance
  \/ GetGradesSummary

SpecReads == ReadInit /\ [][ReadNext]_vars

\* POST /attendance/mark sent by each caller checkRole('admin', 'teacher') lets
\* through; the handler reads req.user only for markedBy
MarkBeginAs(r) ==
  /\ reqs[r].phase = "idle"
  /\ \E n \in 0..MaxBatch, u \in Graders :
       reqs' = [reqs EXCEPT ![r] =
         IF n = 0
         THEN [Idle EXCEPT !.kind = "mark", !.user = u.id, !.phase = "done", !.code = 400]
         ELSE [Idle EXCEPT !.kind = "mark", !.user = u.id, !.n = n, !.phase = "check"]]
  /\ UNCHANGED <<attendance, emitted, notAttVars>>

MarkersNext ==
  \E r \in Requests :
    \/ MarkBeginAs(r)
    \/ MarkCheck(r)
    \/ MarkCreate(r)

SpecMarkers == Init /\ [][MarkersNext]_vars

\* one DELETE and one POST /grades in flight, no grade stored yet
DeleteInit ==
  /\ AttInit
  /\ AggIdle
  /\ grades = <<>>
  /\ gradeReq \in AssignmentBodies
  /\ gradeResp = NoResponse
  /\ gradeEvent = NoEvent
  /\ SumIdle
  /\ EnrollIdle
  /\ TransportIdle
  /\ StockIdle
  /\ ReadIdle
  /\ deleted = {}
  /\ delReq \in DeleteRequests
  /\ postPhase = "read"
  /\ SocketIdle
  /\ FeeIdle

DeleteNext ==
  \/ DeleteRead
  \/ DeleteRemove
  \/ PostRead
  \/ PostCreate

SpecDelete == DeleteInit /\ [][DeleteNext]_vars

SocketNext ==
  \E k \in Sockets :
    \/ Connection(k)
    \/ UserConnected(k)
    \/ SendNotification(k)
    \/ Disconnect(k)

SpecSockets == Init /\ [][SocketNext]_vars

PayNext == \E r \in Requests : PayRead(r) \/ PaySave(r)

SpecPay == Init /\ [][PayNext]_vars

(***************************************************************************)
(* Properties of POST /attendance/mark and of the biometric sync.          *)
(***************************************************************************)
CalendarDay(date) == date \div TicksPerDay
OnDay(student, course, day) ==
  {rec \in attendance :
     rec.student = student /\ rec.course = course /\ CalendarDay(rec.date) = day}

\* request r takes the step that reads the course and looks for a record
MarkChecks(r) ==
  reqs[r].kind = "mark" /\ reqs[r].phase = "check" /\ reqs'[r] # reqs[r]

\* the item of that step is a complete record
Complete(item) ==
  item # NullItem /\ item.date # 0 /\ NoVal \notin {item.student, item.course, item.status}

\* C1: markBatch is idempotent per (student, course, calendar day): an item
\* whose (student, course, day) was marked before, at the same or another time
\* of day and with the same or another status, leaves the collection as it is
\* (one record, its status unchanged) and is reported in results as
\* already_marked.
C1_MarkIdempotent ==
  [][\A r \in Requests :
       LET item == reqs'[r].cur IN
       (/\ MarkChecks(r)
        /\ Complete(item)
        /\ \E rec \in OnDay(item.student, item.course, CalendarDay(item.date)) :
             rec.markedBy # NoVal)
       => /\ attendance' = attendance
          /\ reqs'[r].last = "results"
          /\ reqs'[r].entry = "already_marked"
          /\ reqs'[r].processed = reqs[r].processed + 1
          /\ reqs'[r].failed = reqs[r].failed
          /\ reqs'[r].idx = reqs[r].idx + 1]_vars

\* a second mark at another time of day and with another status was reported
\* already_marked, and the day still has its one record
C1_Witness ==
  \E r \in Requests :
    /\ reqs[r].kind = "mark"
    /\ reqs[r].last = "results"
    /\ reqs[r].entry = "already_marked"
    /\ LET item == reqs[r].cur
           day == OnDay(item.student, item.course, CalendarDay(item.date))
       IN  /\ Cardinality(day) = 1
           /\ \E rec \in day : /\ rec.markedBy # NoVal
                               /\ rec.date # item.date
                               /\ rec.status # item.status

\* C2: at most one attendance record per (student, course, calendar day).
C2_UniquePerDay ==
  \A a, b \in attendance :
    (a.student = b.student /\ a.course = b.course
       /\ CalendarDay(a.date) = CalendarDay(b.date)) => a = b

\* C3: a request with n > 0 records completes with a success envelope in which
\* every record has one entry: processed + failed = n.
C3_BatchCompletes ==
  \A r \in Requests :
    (reqs[r].n > 0 /\ reqs[r].phase \in {"done", "crashed"})
    => /\ reqs[r].code = 200
       /\ reqs[r].processed + reqs[r].failed = reqs[r].n

\* C4: markBatch creates no record for a course that does not exist or a
\* student who is not in its enrolledStudents: such an item goes to errors and
\* leaves the collection unchanged.
C4_EnrolledOnly ==
  /\ [](\A rec \in attendance :
          rec.markedBy # NoVal
          => /\ rec.course \in DOMAIN courseDocs
             /\ rec.student \in courseDocs[rec.course].enrolledStudents)
  /\ [][\A r \in Requests :
          LET item == reqs'[r].cur IN
          (/\ MarkChecks(r)
           /\ Complete(item)
           /\ \/ item.course \notin DOMAIN courseDocs
              \/ item.student \notin courseDocs[item.course].enrolledStudents)
          => /\ attendance' = attendance
             /\ reqs'[r].last = "errors"
             /\ reqs'[r].entry = "Student is not enrolled in this course"
             /\ reqs'[r].failed = reqs[r].failed + 1
             /\ reqs'[r].processed = reqs[r].processed
             /\ reqs'[r].idx = reqs[r].idx + 1]_vars

\* both kinds of item were refused: a student outside the course's
\* enrolledStudents, and a course that does not exist
C4_Witness ==
  /\ \E r \in Requests :
       /\ reqs[r].kind = "mark"
       /\ reqs[r].last = "errors"
       /\ reqs[r].entry = "Student is not enrolled in this course"
       /\ reqs[r].cur.student = "s2"
       /\ reqs[r].cur.course \in DOMAIN courseDocs
  /\ \E r \in Requests :
       /\ reqs[r].kind = "mark"
       /\ reqs[r].last = "errors"
       /\ reqs[r].entry = "Student is not enrolled in this course"
       /\ reqs[r].cur.course \notin DOMAIN courseDocs

\* C5: the item whose insert the unique index rejects is reported in results,
\* not in errors, and is not counted in failed.
C5_DuplicateNotAnError ==
  \A r \in Requests :
    (reqs[r].kind = "mark" /\ reqs[r].entry = "E11000 duplicate key")
    => reqs[r].last = "results"

(***************************************************************************)
(* Properties of the attendance aggregation endpoints.                     *)
(***************************************************************************)
\* the records the request's filter selects for a student
Matching(student, q) ==
  {rec \in attendance :
     /\ rec.student = student
     /\ q.course = NoVal \/ rec.course = q.course
     /\ q.startDate = 0 \/ rec.date >= q.startDate
     /\ q.endDate = 0 \/ rec.date <= q.endDate}

\* r is num / den rounded to the nearest integer, a half going up
IsRoundHalfUp(r, num, den) ==
  /\ (2 * den * r) - den <= 2 * num
  /\ 2 * num < (2 * den * r) + den

\* C6: GET /attendance/student/:studentId returns attendanceRate =
\* round-half-up(present / total x 100) over the student's records that match
\* the filter, present counting the records with status present; the rate is 0
\* when total = 0, it is an integer in 0..100, and present + absent = total.
C6_StudentRate ==
  studentResp.status = 200 =>
    LET matching == Matching(aggReq.studentId, aggReq)
        total == Cardinality(matching)
        present == Cardinality({rec \in matching : rec.status = "present"})
        st == studentResp.statistics
    IN  /\ st.total = total
        /\ st.present = present
        /\ st.present + st.absent = st.total
        /\ st.attendanceRate \in 0..100
        /\ total = 0 => st.attendanceRate = 0
        /\ total > 0 => IsRoundHalfUp(st.attendanceRate, 100 * present, total)

\* C7: GET /attendance/class/:classId lists every student of the class and
\* section, one without records with rate 0; totalStudents is their number,
\* studentsWithAttendance the number of them with a record, and classAverage
\* the rounded mean of the rates of the students with a record, 0 when no
\* student has one.
C7_ClassSummary ==
  classResp.status = 200 =>
    LET q == aggReq
        members == {s \in DOMAIN studentDocs :
                      /\ studentDocs[s].class = q.classId
                      /\ q.section = NoVal \/ studentDocs[s].section = q.section}
        by == classResp.attendanceByStudent
        summary == classResp.classSummary
        withRecords == {s \in members : Matching(s, q) # {}}
        n == Cardinality(withRecords)
    IN  /\ DOMAIN by = members
        /\ \A s \in members :
             /\ by[s].statistics.total = Cardinality(Matching(s, q))
             /\ s \notin withRecords => by[s].statistics.rate = 0
        /\ summary.totalStudents = Cardinality(members)
        /\ summary.studentsWithAttendance = n
        /\ IF n = 0 THEN summary.classAverage = 0
           ELSE IsRoundHalfUp(summary.classAverage, SumRates(by, withRecords), n)

\* three students with rates 100, 50 and no records: the class average is 75
C7_Witness ==
  /\ classResp.status = 200
  /\ classResp.classSummary =
       [totalStudents |-> 3, studentsWithAttendance |-> 2, classAverage |-> 75]
  /\ \E a, b, c \in DOMAIN classResp.attendanceByStudent :
       /\ classResp.attendanceByStudent[a].statistics.rate = 100
       /\ classResp.attendanceByStudent[b].statistics.rate = 50
       /\ classResp.attendanceByStudent[c].statistics.total = 0

(***************************************************************************)
(* Properties of POST /grades and PUT /grades/:id.                         *)
(***************************************************************************)
\* the letter of each percentage from its lower end up
LetterTable ==
  << [min |-> 90, letter |-> "A+"], [min |-> 85, letter |-> "A"],
     [min |-> 80, letter |-> "A-"], [min |-> 75, letter |-> "B+"],
     [min |-> 70, letter |-> "B"], [min |-> 65, letter |-> "B-"],
     [min |-> 60, letter |-> "C+"], [min |-> 55, letter |-> "C"],
     [min |-> 50, letter |-> "C-"], [min |-> 45, letter |-> "D"],
     [min |-> 0, letter |-> "F"] >>

C9_PostRejectsOutOfRange ==
  (/\ gradeResp.status # 0
   /\ gradeReq.pointsEarned # <<>>
   /\ gradeReq.maxPoints # <<>>
   /\ \/ gradeReq.pointsEarned[1] < 0
      \/ gradeReq.pointsEarned[1] > gradeReq.maxPoints[1])
  => /\ gradeResp.status = 400
     /\ grades = <<>>
     /\ gradeEvent = NoEvent

\* the instructor's POST for an enrolled student, one point above maxPoints,
\* was answered 400
C9_Witness ==
  /\ gradeResp.status = 400
  /\ gradeReq = [PlainBody EXCEPT !.pointsEarned = <<MaxPoints>>,
                                  !.maxPoints = <<MaxPoints - 1>>]
  /\ grades = <<>>

\* C10: every persisted grade has 0 <= pointsEarned <= maxPoints and
\* 0 <= percentage <= 100, after any sequence of POST and PUT, a PUT that
\* changes only one of pointsEarned and maxPoints included.
C10_PointsWithinMax ==
  \A i \in 1..Len(grades) :
    /\ 0 <= grades[i].pointsEarned
    /\ grades[i].pointsEarned <= grades[i].maxPoints
    /\ JsLeq(grades[i].percentage, 100)

\* the letter of the first row of the table that a percentage reaches
TableLetter(percentage) ==
  LetterTable[CHOOSE k \in 1..Len(LetterTable) :
                /\ JsGeq(percentage, LetterTable[k].min)
                /\ \A j \in 1..(k - 1) : ~JsGeq(percentage, LetterTable[j].min)].letter

\* C11: a successful PUT /grades/:id, whichever of pointsEarned and maxPoints
\* it supplies, changes one grade, keeps the stored value of an operand it
\* does not change, and stores as percentage the grade's pointsEarned /
\* maxPoints x 100 and as letterGrade the letter of that percentage.
C11_PutRecomputes ==
  [][gradeResp'.status = 200 =>
       /\ Len(grades') = Len(grades)
       /\ \E id \in 1..Len(grades) :
            /\ \A i \in 1..Len(grades) : i # id => grades'[i] = grades[i]
            /\ grades'[id].percentage =
                 JsMul(JsDiv(grades'[id].pointsEarned, grades'[id].maxPoints), 100)
            /\ grades'[id].letterGrade = TableLetter(grades'[id].percentage)
            /\ gradeEvent'.type = "grade_updated"
            /\ gradeEvent'.gradeId = id
               => /\ gradeEvent'.pointsEarned = grades'[id].pointsEarned
                  /\ gradeEvent'.maxPoints = grades'[id].maxPoints]_vars

\* a PUT of pointsEarned alone was combined with the stored maxPoints: a grade
\* of MaxPoints + 1 out of MaxPoints, which no body with both numbers stores
C11_Witness ==
  /\ gradeResp.status = 200
  /\ Len(grades) >= 1
  /\ grades[1].pointsEarned = MaxPoints + 1
  /\ grades[1].maxPoints = MaxPoints
  /\ grades[1].letterGrade = "A+"

(***************************************************************************)
(* Properties of the grade summary.                                        *)
(***************************************************************************)
RECURSIVE SumOf(_, _)
\* the sum of the integers f[x] for x in S
SumOf(f, S) ==
  IF S = {} THEN 0
  ELSE LET x == CHOOSE y \in S : TRUE IN f[x] + SumOf(f, S \ {x})

\* the hundredths next to num / den: the one below it and the one above
Nearby(num, den) == {num \div den, (num \div den) + 1}

\* x is the number with two decimals that is nearest to num / (100 * den), or
\* one of the two nearest ones when num / den lies halfway between hundredths
IsRoundedTo2(x, num, den) ==
  \E h \in Nearby(num, den) :
    /\ x = JsDiv(h, 100)
    /\ 2 * (IF h * den >= num THEN (h * den) - num ELSE num - (h * den)) <= den

\* the hundredths of such a number
HundredthsOf(x, num, den) == CHOOSE h \in Nearby(num, den) : x = JsDiv(h, 100)

\* C12: a summary that is served lists each course the student has grades in
\* once, with the number of the student's grades in it and with the simple mean
\* of their percentages (100 * pointsEarned / maxPoints, taken exactly) rounded
\* to two decimals; overallGPA is the mean of these per-course averages rounded
\* to two decimals, and 0 when the student has no grades; totalGrades is the
\* number of the student's grade records.
C12_SummaryAverages ==
  summaryResp.status = 200 =>
    LET mine == {i \in 1..Len(grades) : grades[i].student = summaryReq.studentId}
        entries == summaryResp.gradesByCourse
        of(k) == {i \in mine : grades[i].course = entries[k].course}
        \* 60 times the percentage; maxPoints is 1, 3 or 20
        sixty == [i \in mine |-> (6000 * grades[i].pointsEarned) \div grades[i].maxPoints]
        hundredths ==
          [k \in 1..Len(entries) |->
             HundredthsOf(entries[k].average, 100 * SumOf(sixty, of(k)),
                          60 * Cardinality(of(k)))]
    IN  /\ summaryResp.totalGrades = Cardinality(mine)
        /\ {entries[k].course : k \in 1..Len(entries)} = {grades[i].course : i \in mine}
        /\ Len(entries) = Cardinality({grades[i].course : i \in mine})
        /\ \A k \in 1..Len(entries) :
             /\ entries[k].totalGrades = Cardinality(of(k))
             /\ IsRoundedTo2(entries[k].average, 100 * SumOf(sixty, of(k)),
                             60 * Cardinality(of(k)))
        /\ IF mine = {} THEN summaryResp.overallGPA = JsZero
           ELSE IsRoundedTo2(summaryResp.overallGPA,
                             SumOf(hundredths, 1..Len(entries)), Len(entries))

\* the summary of a student with grades of 100% and 50% in one course and of 0%
\* in another: averages 75 and 0, overall 37.5 (the mean of all three is 50)
C12_Witness ==
  /\ summaryResp.status = 200
  /\ summaryResp.totalGrades = 3
  /\ Len(summaryResp.gradesByCourse) = 2
  /\ summaryResp.gradesByCourse[1].average = JsDiv(7500, 100)
  /\ summaryResp.gradesByCourse[2].average = JsZero
  /\ summaryResp.overallGPA = JsDiv(3750, 100)

(***************************************************************************)
(* Properties of POST /courses/:id/enroll.                                 *)
(***************************************************************************)
\* the response that rejects a request for capacity
CapacityRejection(resp) == resp.status = 400 /\ resp.message = "capacity"

\* C13: a request with a nonempty array of ids for a course that has a
\* maxEnrollment is rejected for capacity exactly when the number of enrolled
\* students it reads plus the number of incoming ids exceeds maxEnrollment,
\* with a message that cites maxEnrollment, and a rejected request leaves the
\* course as it was; a request that fits and names existing students is not
\* refused, and when no other request wrote the course in between, it answers
\* 200 with every incoming student in the list, which grew by the new ones.
C13_EnrollCapacity ==
  [][\A r \in Requests :
       LET q == enrollReqs[r]
           resp == enrollReqs'[r].resp
       IN  /\ (q.pc = "read" /\ enrollReqs'[r].pc # "read") =>
                LET limited == /\ q.students # NoArray
                               /\ q.students # <<>>
                               /\ q.id \in DOMAIN courses
                               /\ courses[q.id].maxEnrollment # 0
                    over == Len(courses[q.id].enrolledStudents) + Len(q.students)
                              > courses[q.id].maxEnrollment
                IN  /\ CapacityRejection(resp) <=> (limited /\ over)
                    /\ CapacityRejection(resp) =>
                         /\ resp.maxEnrollment = courses[q.id].maxEnrollment
                         /\ courses' = courses
                    /\ (limited /\ ~over
                        /\ \A i \in 1..Len(q.students) : q.students[i] \in DOMAIN studentDocs)
                         => \/ enrollReqs'[r].pc = "save"
                            \/ resp.status = 200 /\ courses' = courses
           /\ (q.pc = "save" /\ enrollReqs'[r].pc # "save" /\ courses[q.id] = q.course) =>
                /\ resp.status = 200
                /\ \A i \in 1..Len(q.students) :
                     \E j \in 1..Len(courses'[q.id].enrolledStudents) :
                       courses'[q.id].enrolledStudents[j] = q.students[i]
                /\ Len(courses'[q.id].enrolledStudents)
                     = Len(courses[q.id].enrolledStudents) + Len(q.newStudents)
                /\ courses[q.id].maxEnrollment # 0 =>
                     Len(courses'[q.id].enrolledStudents) <= courses[q.id].maxEnrollment]_vars

\* with maxEnrollment = 2 and s1, s2 enrolled, enrolling s3 was rejected with a
\* message citing 2; after s1 was removed the same request of another client
\* succeeded and the list has 2 students again
C13_Witness ==
  /\ MaxEnrollment = 2
  /\ enrollReqs["r1"].resp = [status |-> 400, message |-> "capacity", maxEnrollment |-> 2]
  /\ enrollReqs["r2"].resp = [status |-> 200, message |-> "enrolled",
                              newlyEnrolled |-> <<"s3">>]
  /\ courses["c1"].enrolledStudents = <<"s2", "s3">>

\* C14: every course with a maxEnrollment has at most maxEnrollment enrolled
\* students, in every state that interleaved enroll requests reach.
C14_EnrollmentBounded ==
  \A c \in DOMAIN courses :
    courses[c].maxEnrollment # 0
      => Len(courses[c].enrolledStudents) <= courses[c].maxEnrollment

\* two requests read the course before either saved: one filled the course,
\* the save of the other failed
C14_Witness ==
  /\ enrollReqs["r1"].resp.status = 200
  /\ enrollReqs["r2"].resp.status = 500
  /\ Len(courses["c1"].enrolledStudents) = courses["c1"].maxEnrollment

(***************************************************************************)
(* Properties of the transport handlers.                                   *)
(***************************************************************************)
\* C15: the transport record never has more assigned students than its
\* capacity, in any state that create, update, assign-students and
\* remove-students reach.
C15_AssignedWithinCapacity ==
  transport.exists => Len(transport.assignedStudents) <= transport.capacity

\* C16: an assign-students request that finds the record with a status other
\* than 'active' is answered 400 and leaves the record as it was, and the list
\* of assigned students grows only in steps that start with status 'active'.
C16_AssignOnlyWhenActive ==
  [][/\ \A r \in Requests :
          (/\ assignReqs[r].pc = "read"
           /\ assignReqs'[r].pc # "read"
           /\ assignReqs[r].students \notin {NoArray, <<>>}
           /\ transport.exists
           /\ transport.status # "active")
            => /\ assignReqs'[r].resp = [status |-> 400, message |-> "inactive"]
               /\ transport' = transport
     /\ Len(transport'.assignedStudents) > Len(transport.assignedStudents)
          => transport.status = "active"]_vars

(***************************************************************************)
(* Properties of POST /inventory/:id/stock-update.                         *)
(***************************************************************************)
\* the step in which request r saves the item
Saves(r) == stockReqs[r].pc = "save" /\ stockReqs'[r].pc = "done"

\* C17: a stock update sets the quantity to the larger of 0 and the quantity it
\* read plus quantityChange, and the quantity is never negative.
C17_QuantityClamped ==
  [][/\ \A r \in Requests :
          Saves(r) =>
            LET sum == stockReqs[r].read + stockReqs[r].quantityChange
            IN  /\ sum >= 0 => stockItem'.quantity = sum
                /\ sum < 0 => stockItem'.quantity = 0
     /\ stockItem.quantity >= 0
     /\ stockItem'.quantity >= 0]_vars

\* an update of -MaxChange on fewer pieces than that left the item with 0 pieces
C17_Witness ==
  /\ stockItem.quantity = 0
  /\ \E r \in Requests :
       /\ stockReqs[r].pc = "done"
       /\ stockReqs[r].resp.status = 200
       /\ stockReqs[r].read + stockReqs[r].quantityChange < 0

\* C18: a stock update that leaves the quantity below minStockLevel gives the
\* item a status other than the one it gives an item whose quantity it leaves
\* at minStockLevel or above.
C18_RestockStatus ==
  [][\A r \in Requests :
       (Saves(r) /\ stockItem'.quantity < stockItem'.minStockLevel)
         => \A n \in stockItem'.minStockLevel..MaxQuantity :
              stockItem'.status # StockStatus(n, stockItem'.minStockLevel)]_vars

(***************************************************************************)
(* Properties of the notifications.                                        *)
(***************************************************************************)
\* C19: a stock update whose write succeeded returns its success response,
\* whether the low_stock_alert is published, there is no socket server, or
\* the emit call throws.
C19_PublishNeverFails ==
  [][\A r \in Requests : Saves(r) => stockReqs'[r].resp.status = 200]_vars

(***************************************************************************)
(* Properties of the read paths.                                           *)
(***************************************************************************)
\* C20: a caller with role student is served attendance and grade data only of
\* the student whose profile is the caller's own, on the list, by-id,
\* per-student and summary paths; a request of such a caller that names or
\* matches data of another student is answered 403.
C20_StudentSeesOwnOnly ==
  readReq.user.role = "student" =>
    LET own == StudentByUser(readReq.user.id)
    IN  /\ readResp.status = 200 => readResp.students \subseteq {own}
        /\ (readResp.status # 0 /\ readReq.kind \in {"attendance", "grades"}
            /\ readReq.student # own)
             => readResp.status = 403
        /\ studentResp.status = 200 => aggReq.studentId = own
        /\ (studentResp.status # 0 /\ aggReq.studentId # own) => studentResp.status = 403
        /\ summaryResp.status = 200 => summaryReq.studentId = own
        /\ (summaryResp.status # 0 /\ summaryReq.studentId # own)
             => summaryResp.status = 403

\* C21: a caller with role parent is served attendance and grade data of a
\* student only when that student's parent reference is the caller's id, on
\* the per-student, by-id and summary paths; every other request of such a
\* caller for an existing student, one without a parent reference included,
\* is answered 403.
C21_ParentSeesOwnChildOnly ==
  readReq.user.role = "parent" =>
    LET mine(s) == s \in DOMAIN studentDocs /\ studentDocs[s].parent = readReq.user.id
        known(s) == s \in DOMAIN studentDocs
    IN  /\ studentResp.status = 200 => mine(aggReq.studentId)
        /\ (studentResp.status # 0 /\ known(aggReq.studentId) /\ ~mine(aggReq.studentId))
             => studentResp.status = 403
        /\ summaryResp.status = 200 => mine(summaryReq.studentId)
        /\ (summaryResp.status # 0 /\ known(summaryReq.studentId)
            /\ ~mine(summaryReq.studentId))
             => summaryResp.status = 403
        /\ readReq.kind = "grade" =>
             /\ readResp.status = 200 => \A s \in readResp.students : mine(s)
             /\ (readResp.status # 0 /\ readReq.id \in 1..Len(grades)
                 /\ ~mine(grades[readReq.id].student))
                  => readResp.status = 403

\* C22: a caller with role teacher creates or modifies attendance records and
\* grades of a course only as that course's instructor: every attendance
\* record marked by a teacher's account is of a course whose instructor is
\* that teacher's profile, and a POST /grades or PUT /grades/:id of a teacher
\* who is not the instructor is answered 403 and writes nothing.
C22_TeacherWritesOwnCourseOnly ==
  LET teachers == {g.id : g \in {x \in Graders : x.role = "teacher"}}
      instructs(id, course) ==
        /\ course \in DOMAIN courseDocs
        /\ TeacherByUser(id) = courseDocs[course].instructor
  IN  /\ \A rec \in attendance :
           rec.markedBy \in teachers => instructs(rec.markedBy, rec.course)
      /\ (gradeReq.user.role = "teacher" /\ gradeResp.status \in {200, 201})
           => \E i \in 1..Len(grades) : instructs(gradeReq.user.id, grades[i].course)

\* C23: a caller whose role is none of admin, teacher, student and parent is
\* answered 403 without data on the per-student attendance path, the grade
\* by-id path and the grade summary path.
C23_OtherRolesDenied ==
  readReq.user.role \notin {NoVal, "admin", "teacher", "student", "parent"} =>
    /\ studentResp.status \in {0, 403, 404}
    /\ summaryResp.status \in {0, 403, 404}
    /\ readReq.kind = "grade" => readResp.status \in {0, 403, 404}

\* C24: no stored grade references an assignment that was deleted, whatever
\* the order in which the steps of a POST /grades for the assignment and of
\* its DELETE run.
C24_NoGradeOfDeletedAssignment ==
  \A i \in 1..Len(grades) :
    grades[i].assignment # NoVal => grades[i].assignment \notin deleted

\* C25: a stock update publishes a low_stock_alert only when its write took
\* the stored quantity from minStockLevel or above to below minStockLevel; a
\* write on an item that was below the level and stays below it, and a
\* rejected request, publish none.
C25_AlertOnCrossingOnly ==
  [][/\ \A r \in Requests :
          (Saves(r) /\ stockEvent' # stockEvent)
            => /\ stockItem.quantity >= stockItem.minStockLevel
               /\ stockItem'.quantity < stockItem'.minStockLevel
     /\ (\A r \in Requests : ~Saves(r)) => stockEvent' = stockEvent]_vars

(***************************************************************************)
(* Properties of the connection registry.                                  *)
(***************************************************************************)
\* C26: every socket id stored in connectedUsers is the id of a socket that is
\* connected; no entry maps to the id of a socket that has disconnected.
C26_RegistryOfConnectedSockets ==
  \A i \in 1..Len(connectedUsers) :
    sockets[connectedUsers[i].socketId].state = "connected"

\* C27: a notification that names a recipient is delivered to no socket other
\* than the one the registry holds for that recipient, whether the recipient
\* is registered or not.
C27_NotificationToRecipientOnly ==
  [][(notified' # notified /\ notified'.recipient # NoVal)
       => notified'.to \subseteq {MapGet(connectedUsers, notified'.recipient)}]_vars

(***************************************************************************)
(* More properties of POST /courses/:id/enroll.                            *)
(***************************************************************************)
\* C28: a course's enrolledStudents holds each student at most once, whatever
\* arrays the enroll requests carried.
C28_EnrolledOnce ==
  \A c \in DOMAIN courses :
    \A i, j \in 1..Len(courses[c].enrolledStudents) :
      courses[c].enrolledStudents[i] = courses[c].enrolledStudents[j] => i = j

\* C29: an enroll request whose students are all enrolled in the course
\* already is answered with the success 'already enrolled' and leaves
\* enrolledStudents as it is, in every state of the course, a full one
\* included.
C29_EnrollIdempotent ==
  [][\A r \in Requests :
       LET q == enrollReqs[r]
           enrolled == {courses[q.id].enrolledStudents[i] :
                          i \in 1..Len(courses[q.id].enrolledStudents)}
       IN  (/\ q.pc = "read"
            /\ enrollReqs'[r].pc # "read"
            /\ q.id \in DOMAIN courses
            /\ q.students # NoArray
            /\ q.students # <<>>
            /\ \A i \in 1..Len(q.students) : q.students[i] \in enrolled)
             => /\ enrollReqs'[r].pc = "done"
                /\ enrollReqs'[r].resp.status = 200
                /\ enrollReqs'[r].resp.message = "already"
                /\ courses' = courses]_vars

(***************************************************************************)
(* Properties of POST /fees/:id/pay.                                       *)
(***************************************************************************)
\* C30: over any interleaving of pay requests for one fee at most one request
\* succeeds and at most one fee_paid event is published; a request that
\* completes once the fee is paid is answered 400 and leaves paymentMethod and
\* paymentDate as they are.
C30_PaidOnce ==
  [][/\ feePaid' <= 1
     /\ AlreadyPaid(fee) => fee' = fee
     /\ \A r \in Requests :
          (AlreadyPaid(fee) /\ payReqs[r].pc # "done" /\ payReqs'[r].pc = "done"
           /\ payReqs'[r].resp.status # 404)
            => payReqs'[r].resp.status = 400]_vars

====
